---- MODULE Spec2Model ----
(***************************************************************************)
(* Hedwig reply monitor: the per-hub supervisor (check_reply/mod.rs) and   *)
(* monitor_hub with its UID watermark (check_reply/service.rs), run        *)
(* against an IMAP mailbox and the hubs table.                             *)
(*                                                                         *)
(* UIDs are u32 in the code and the stored watermark is an i32.  The model *)
(* keeps both widths but scaled: I32Max stands for i32::MAX and U32Max for *)
(* u32::MAX, so that a UID above the signed range exists within the bound. *)
(***************************************************************************)
EXTENDS Integers, Sequences, FiniteSets, TLC

\* ---------------------------------------------------------------- bounds
\* Scaled i32::MAX: the largest UID that fits the stored watermark.
I32Max == 4
\* The highest UID the server assigns in a behaviour.
MaxUid == 5
\* Failures (I/O errors, repository errors, bus errors, panics) in a behaviour.
MaxFaults == 2
\* Messages deleted from the mailbox in a behaviour.
MaxExpunge == 1
\* Rows of email_recipients.
NumRecipients == 3
\* update_recipient calls in a behaviour.
MaxUpdates == 2
\* Recipients of a NewEmail request.
MaxRcpts == 2
\* process_new_message calls in a behaviour that follows the tables.
MaxProcessed == 3
\* Monitors a supervisor spawns for its hub in a behaviour with several hubs.
MaxSpawns == 2
\* The highest UID of a hub's mailbox in a behaviour with several hubs.
MaxHubUid == 2
\* Angle-bracket pieces of an In-Reply-To header.
MaxPieces == 2
\* Lines of a message body handed to the reply extraction.
MaxLines == 3
\* Pieces (tokens and literal text) of an email message or a hub template.
MaxTemplatePieces == 2
\* Scaled u32::MAX.
U32Max == 2 * I32Max + 1

Uids == 1..MaxUid

VARIABLES
    \* IMAP server
    mailbox,        \* UIDs of the messages present in INBOX
    uidNext,        \* next UID the server assigns (UIDs are never reused)
    \* hubs table
    stored,         \* hubs.imap_last_uid
    \* supervisor task of the hub (check_reply/mod.rs run)
    supPc,          \* "get_hub" | "await" | "sleep"
    hub,            \* the Hub value handed to monitor_hub
    \* monitor_hub task
    monPc,          \* position of the monitor, "none" when no task exists
    monResult,      \* "running" | "err" | "panic"
    last_uid,
    persisted_uid,
    cutoff_uid,
    batch,          \* UIDs of the current for loop not yet taken
    cur,            \* the UID of the current loop iteration (0: none yet)
    curMsg,         \* fetch and parse of the current message:
                    \* none|vanished|unparsed|parsed
    curRepo,        \* repository write of the current message: none|ok|fail
    curPub,         \* bus publish of the current message: none|pending|sent|fail
    \* history
    setCalls,       \* arguments of set_imap_last_uid calls since the last search
    lastWrite,      \* result of the last set_imap_last_uid call of this run
    lastSearch,     \* result of the last uid_search of this run
    searchFrom,     \* last_uid when the last search was issued
    batchAll,       \* what the last search handed to the for loop
    batchFresh,     \* whether all of batchAll was above the stored watermark
                    \* and within the signed range when it was searched
    \* history of completed UIDs, recorded under SpecRedo only
    idleErr,        \* the error of the last IDLE operation of this run
    runDone,        \* UIDs whose repository write and publish succeeded in this run
    doneBefore,     \* UIDs whose repository write and publish succeeded in an earlier run
    \* budgets of the model
    faults,         \* failures injected so far (I/O, repository, bus, panics)
    expunged,       \* messages deleted so far
    \* process_new_message on one message, call by call
    msgPc,          \* "fetch" | "classify" | "publish" | "done"
    curParsed,      \* the ParsedEmail of the message
    calls,          \* the repository calls made for the message, in order
    pending,        \* the bus message about to be sent (<<>>: none)
    bus,            \* the send_json calls made for the message, in order
    redo,           \* the message is being processed a second time
    prevCalls,      \* the repository calls of its first processing
    numProcessed,   \* process_new_message calls that wrote to the tables so far
    \* repository tables and the update_recipient calls in progress
    recipients,     \* email_recipients: id -> is_sent, opened, replied, reply
    emails,         \* emails: id -> num_sent, num_opened, num_replied
    upd,            \* caller -> its update_recipient call, statement by statement
    sameRow,        \* history: two calls for the same recipient have overlapped
    numUpdates,     \* update_recipient calls made so far
    unsubscribes,   \* unsubscribes: rows (email, hub_id, reason), in insertion order
    \* send_email tasks over the emails they create
    sdb,            \* committed emails with their recipient rows, by email id
    task,           \* send task -> its send_email run, step by step
    nullFields,     \* what a NULL fields column converts to (<<>>: not yet read)
    \* the supervisors of all hubs (check_reply/mod.rs run)
    hubTable,       \* hubs: id -> imap_last_uid
    supervisor,     \* hub id -> the supervisor task of the hub with the
                    \* monitor tasks it has spawned
    \* Message-ID of a sent message and In-Reply-To of a received one
    correlation,    \* the header at hand, how it came about and what
                    \* extract_recipient_id made of it
    \* reply extraction (check_reply/parser.rs extract_reply_text)
    cleaning,       \* a body text, its extraction and the extraction of that
    \* template rendering (send_email/message_builder.rs build_message)
    rendering       \* an email message, a hub template, the recipient's
                    \* fields and the body build_message makes of them

envVars == <<mailbox, uidNext>>
supVars == <<supPc, hub>>
monVars == <<monPc, monResult, last_uid, persisted_uid, cutoff_uid, batch, cur,
             curMsg, curRepo, curPub>>
histVars == <<setCalls, lastWrite, lastSearch, searchFrom, batchAll, batchFresh,
              idleErr, runDone, doneBefore>>
budgetVars == <<faults, expunged>>
\* The reply monitor's own state, without the failure budget.
hubVars == <<hubTable, supervisor>>
\* What the specifications of single operations leave alone.
extVars == <<hubVars, correlation, cleaning, rendering>>
coreVars == <<envVars, stored, supVars, monVars, histVars, expunged, extVars>>
msgVars == <<msgPc, curParsed, calls, pending, bus, redo, prevCalls,
            numProcessed>>
repoVars == <<recipients, emails, upd, sameRow, numUpdates, unsubscribes>>
sendVars == <<sdb, task, nullFields>>
mailVars == <<msgVars, repoVars, sendVars, extVars>>
\* The one-hub monitor with the operations on the mail tables.
monitorVars == <<envVars, stored, supVars, monVars, histVars, expunged,
                 msgVars, repoVars, sendVars>>
vars == <<envVars, stored, supVars, monVars, histVars, budgetVars, mailVars>>

NoHub == [imap_last_uid |-> 0, configured |-> FALSE]

\* ------------------------------------------------------------ pure helpers
Max(S) == CHOOSE m \in S : \A x \in S : x <= m

Range(s) == {s[i] : i \in 1..Len(s)}

\* All orders in which the elements of a set can be iterated (HashSet<u32>).
RECURSIVE Orders(_)
Orders(S) ==
    IF S = {} THEN {<<>>}
    ELSE UNION {{<<x>> \o t : t \in Orders(S \ {x})} : x \in S}

\* sort_unstable on a Vec<u32>: insertion of each element at its place.
RECURSIVE InsertSorted(_, _)
InsertSorted(x, s) ==
    IF s = <<>> THEN <<x>>
    ELSE IF x <= Head(s) THEN <<x>> \o s
    ELSE <<Head(s)>> \o InsertSorted(x, Tail(s))

RECURSIVE sort_unstable(_)
sort_unstable(s) == IF s = <<>> THEN <<>> ELSE InsertSorted(Head(s), sort_unstable(Tail(s)))

ordered_uids_unsorted(uids) == uids

ordered_uids(uids) == sort_unstable(uids)

\* .filter(|&uid| uid != cutoff_uid)
RECURSIVE FilterNot(_, _)
FilterNot(s, c) ==
    IF s = <<>> THEN <<>>
    ELSE IF Head(s) = c THEN FilterNot(Tail(s), c)
    ELSE <<Head(s)>> \o FilterNot(Tail(s), c)

\* u32::saturating_add(1)
saturating_add1(x) == IF x >= U32Max THEN U32Max ELSE x + 1

\* The server's answer to UID SEARCH "UID n:*": '*' is the highest UID in the
\* mailbox, and a range is unordered, so n above the highest UID still selects
\* the highest message.
uid_search(n) ==
    IF mailbox = {} THEN {}
    ELSE {u \in mailbox : u >= n} \cup (IF n > Max(mailbox) THEN {Max(mailbox)} ELSE {})


\* ------------------------------------------------------------ the watermark
\* if new_uid.get() <= stored_uid.get() { return; }
NotAboveNever(new_uid, stored_uid) == FALSE

NotAbove(new_uid, stored_uid) == new_uid <= stored_uid

\* ImapUid::try_from(i32): the stored UID is a non-negative i32.
ImapUidValid(n) == n >= 0

persist_last_processed_uid_unchecked(stored_uid, candidate_uid, write_ok) ==
    IF candidate_uid < 0
    THEN [called |-> FALSE, arg |-> 0, stored_uid |-> stored_uid]
    ELSE IF candidate_uid <= stored_uid
    THEN [called |-> FALSE, arg |-> 0, stored_uid |-> stored_uid]
    ELSE [called |-> TRUE, arg |-> candidate_uid,
          stored_uid |-> IF write_ok THEN candidate_uid ELSE stored_uid]

\* persist_last_processed_uid(repo, hub_id, &mut stored_uid, candidate_uid), with
\* write_ok the result of repo.set_imap_last_uid.  called: whether
\* set_imap_last_uid was called, arg: with which UID, stored_uid: the caller's
\* stored_uid afterwards.
persist_last_processed_uid(stored_uid, candidate_uid, write_ok) ==
    IF candidate_uid > I32Max
    THEN [called |-> FALSE, arg |-> 0, stored_uid |-> stored_uid]
    ELSE IF ~ImapUidValid(candidate_uid)
    THEN [called |-> FALSE, arg |-> 0, stored_uid |-> stored_uid]
    ELSE IF NotAbove(candidate_uid, stored_uid)
    THEN [called |-> FALSE, arg |-> 0, stored_uid |-> stored_uid]
    ELSE [called |-> TRUE, arg |-> candidate_uid,
          stored_uid |-> IF write_ok THEN candidate_uid ELSE stored_uid]

\* set_imap_last_uid(hub_id, uid): UPDATE hubs SET imap_last_uid = uid; an Err
\* leaves the row as it was.
set_imap_last_uid(row, uid, write_ok) == IF write_ok THEN uid ELSE row

\* The UID handed to persist_last_processed_uid after process_new_message(uid):
\* the UID of this iteration (rest: the UIDs of the batch still to come).
PersistCandidateBatchMax(uid, rest) == IF rest = <<>> THEN uid ELSE rest[Len(rest)]

PersistCandidate(uid, rest) == uid

\* ------------------------------------------------------ process_new_message
Subjects == {"none", "unsubscribe", "undelivered", "other"}

\* ParsedEmail, reduced to what the classification reads: the subject class
\* and whether sender_email, bounce_recipient and recipient_id are present.
ParsedEmails ==
    [subject : Subjects, sender : BOOLEAN, bounce : BOOLEAN, rid : BOOLEAN]

\* What process_new_message does with a parsed message: the repository write
\* it issues and the bus message it publishes.  row: "some" | "none" | "err",
\* the result of get_email_recipient_by_id; id_ok: EmailRecipientId::try_from.
process_plan(parsed, id_ok, row) ==
    IF parsed.subject = "unsubscribe" /\ parsed.sender
    THEN [repo |-> "unsubscribe", pub |-> "unsubscribe"]
    ELSE IF parsed.subject = "undelivered" /\ parsed.bounce
    THEN [repo |-> "unsubscribe", pub |-> "unsubscribe"]
    ELSE IF parsed.rid /\ ~id_ok
    THEN [repo |-> "none", pub |-> "none"]
    ELSE [repo |-> IF parsed.rid /\ row = "some" THEN "update" ELSE "none",
          pub |-> IF parsed.sender THEN "reply" ELSE "none"]


\* The plans process_new_message can arrive at, over all parsed messages, id
\* conversions and recipient lookups.
ProcessPlans ==
    {process_plan(parsed, id_ok, row) :
        parsed \in ParsedEmails, id_ok \in BOOLEAN, row \in {"some", "none", "err"}}

\* ---------------------------------------------------- tables and messages
\* Option<T>: None is <<>>, Some(x) is <<x>>.
Option(S) == {<<>>} \cup {<<x>> : x \in S}

RecipientIds == 1..NumRecipients

\* hub.id of the monitored hub; a second hub owns the last email.
MonitoredHub == 1

OtherHub == 2

\* email_recipients.email_id: the last recipient row belongs to the email of
\* the other hub, every other row to the email of the monitored hub.
EmailOf(r) == IF r < NumRecipients THEN MonitoredHub ELSE OtherHub

\* One email per hub, with the id of its hub.
EmailIds == {MonitoredHub, OtherHub}

\* emails.hub_id: email e belongs to hub e.
HubOfEmail(e) == e

get_email_recipient_by_id_any_hub(id, hub_id) ==
    IF id \in RecipientIds THEN <<id>> ELSE <<>>

\* get_email_recipient_by_id(id, hub_id): the row with that id, joined to its
\* email and filtered by the email's hub.
get_email_recipient_by_id(id, hub_id) ==
    IF id \in RecipientIds /\ HubOfEmail(EmailOf(id)) = hub_id THEN <<id>> ELSE <<>>

\* Subject lines, with their ASCII lower case.
SubjectTexts ==
    {"unsubscribe", "UnSubscribe", "unsubscribe me",
     "Undelivered Mail Returned to Sender",
     "UNDELIVERED MAIL RETURNED TO SENDER", "Re: Hello"}

to_ascii_lowercase(text) ==
    CASE text = "UnSubscribe" -> "unsubscribe"
      [] text = "Undelivered Mail Returned to Sender"
            -> "undelivered mail returned to sender"
      [] text = "UNDELIVERED MAIL RETURNED TO SENDER"
            -> "undelivered mail returned to sender"
      [] text = "Re: Hello" -> "re: hello"
      [] OTHER -> text

eq_case_sensitive(a, b) == a = b

\* str::eq_ignore_ascii_case
eq_ignore_ascii_case(a, b) == to_ascii_lowercase(a) = to_ascii_lowercase(b)

SenderAddress == "sender@example.com"

BouncedAddress == "bounced@example.com"

\* ParsedEmail as parse_email returns it.  recipient_id: 0 and
\* NumRecipients + 1 name no row.
ParsedMessages ==
    [subject : Option(SubjectTexts),
     sender_email : Option({SenderAddress}),
     recipient_id : Option(0..(NumRecipients + 1)),
     reply : Option({"Thanks!"}),
     bounce_recipient : Option({BouncedAddress})]

NoParsed ==
    [subject |-> <<>>, sender_email |-> <<>>, recipient_id |-> <<>>,
     reply |-> <<>>, bounce_recipient |-> <<>>]

\* The subject as process_new_message tests it.
SubjectClass(subject) ==
    IF subject = <<>> THEN "none"
    ELSE IF eq_ignore_ascii_case(subject[1], "unsubscribe") THEN "unsubscribe"
    ELSE IF eq_ignore_ascii_case(subject[1], "Undelivered Mail Returned to Sender")
    THEN "undelivered"
    ELSE "other"

\* What the classification reads of a ParsedEmail.
Classified(p) ==
    [subject |-> SubjectClass(p.subject), sender |-> p.sender_email # <<>>,
     bounce |-> p.bounce_recipient # <<>>, rid |-> p.recipient_id # <<>>]

\* EmailRecipientId::try_from(i32), a conversion of the domain crate: every
\* row id converts; for a value that is no row id both results are allowed.
EmailRecipientIdOk(id) == IF id >= 1 THEN {TRUE} ELSE BOOLEAN

unsubscribe_email_sender_first(p) ==
    IF p.sender_email # <<>> THEN p.sender_email[1] ELSE p.bounce_recipient[1]

\* The address handed to send_unsubscribe_message: the sender of an
\* unsubscribe message, the bounced address of an undelivered one.
unsubscribe_email(p) ==
    IF SubjectClass(p.subject) = "unsubscribe" /\ p.sender_email # <<>>
    THEN p.sender_email[1]
    ELSE p.bounce_recipient[1]

process_reply_updates_sent_only(reply) ==
    [is_sent |-> <<TRUE>>, replied |-> <<>>, opened |-> <<>>, reply |-> reply]

\* The UpdateEmailRecipient process_reply hands to update_recipient; reply:
\* the reply text after EmailRecipientReply::try_from.
process_reply_updates(reply) ==
    [is_sent |-> <<TRUE>>, replied |-> <<TRUE>>, opened |-> <<TRUE>>,
     reply |-> reply]

send_email_updates_resetting ==
    [is_sent |-> <<TRUE>>, replied |-> <<FALSE>>, opened |-> <<FALSE>>,
     reply |-> <<>>]

\* The UpdateEmailRecipient send_email hands to update_recipient after the
\* mailer has sent the message.
send_email_updates ==
    [is_sent |-> <<TRUE>>, replied |-> <<>>, opened |-> <<>>, reply |-> <<>>]

\* update_recipient: the columns in the order of its UPDATE statements.
UpdateOrderRepliedFirst == <<"replied", "is_sent", "opened", "reply">>

UpdateOrder == <<"is_sent", "opened", "replied", "reply">>

\* The first statement at or after position k that the updates ask for
\* (0: none is left).
NextColumn(updates, k) ==
    LET left == {j \in k..Len(UpdateOrder) : updates[UpdateOrder[j]] # <<>>}
    IN IF left = {} THEN 0 ELSE CHOOSE j \in left : \A i \in left : j <= i

SetColumnWholeRow(table, id, column, value) ==
    [table EXCEPT ![id] =
        IF column = "is_sent" THEN [@ EXCEPT !.is_sent = value, !.reply = <<>>]
        ELSE IF column = "opened" THEN [@ EXCEPT !.opened = value, !.reply = <<>>]
        ELSE IF column = "replied" THEN [@ EXCEPT !.replied = value, !.reply = <<>>]
        ELSE [@ EXCEPT !.reply = <<value>>]]

\* UPDATE email_recipients SET <column> = <value> WHERE id = <id>
SetColumn(table, id, column, value) ==
    [table EXCEPT ![id] =
        IF column = "is_sent" THEN [@ EXCEPT !.is_sent = value]
        ELSE IF column = "opened" THEN [@ EXCEPT !.opened = value]
        ELSE IF column = "replied" THEN [@ EXCEPT !.replied = value]
        ELSE [@ EXCEPT !.reply = <<value>>]]

\* SELECT COUNT(*) FROM email_recipients WHERE email_id = e AND <column>
CountWhere(table, e, column) ==
    Cardinality({r \in RecipientIds :
        /\ EmailOf(r) = e
        /\ IF column = "is_sent" THEN table[r].is_sent
           ELSE IF column = "opened" THEN table[r].opened
           ELSE table[r].replied})

\* The first k of the UPDATE statements the updates ask for, applied to the
\* row id.
RECURSIVE ApplyColumns(_, _, _, _, _)
ApplyColumns(table, id, updates, from, k) ==
    LET j == NextColumn(updates, from) IN
    IF k = 0 \/ j = 0 THEN table
    ELSE ApplyColumns(SetColumn(table, id, UpdateOrder[j], updates[UpdateOrder[j]][1]),
                      id, updates, j + 1, k - 1)

increment_counters(table, e, old) ==
    [num_sent |-> old.num_sent + 1, num_opened |-> old.num_opened + 1,
     num_replied |-> old.num_replied + 1]

\* The counters update_recipient writes to the email: the three counts.
recompute_counters(table, e, old) ==
    [num_sent |-> CountWhere(table, e, "is_sent"),
     num_opened |-> CountWhere(table, e, "opened"),
     num_replied |-> CountWhere(table, e, "replied")]

UnsubscribeRow(email, hub_id, reason) ==
    [email |-> email, hub_id |-> hub_id, reason |-> reason]

unsubscribe_recipient_insert(table, email, hub_id, reason) ==
    Append(table, UnsubscribeRow(email, hub_id, reason))

\* unsubscribe_recipient(email, hub_id, reason): INSERT INTO unsubscribes ...
\* ON CONFLICT(email, hub_id) DO NOTHING.
unsubscribe_recipient(table, email, hub_id, reason) ==
    IF \E i \in 1..Len(table) : table[i].email = email /\ table[i].hub_id = hub_id
    THEN table
    ELSE Append(table, UnsubscribeRow(email, hub_id, reason))

\* The messages handed to process_new_message when the tables are followed:
\* replies with every recipient id and with or without reply text,
\* unsubscribe requests of one sender under two spellings, and a bounce.
StoredMessages ==
    {p \in ParsedMessages :
        /\ p.sender_email = <<SenderAddress>>
        /\ \/ p.subject = <<"Re: Hello">> /\ p.bounce_recipient = <<>>
           \/ /\ p.subject \in {<<"unsubscribe">>, <<"UnSubscribe">>}
              /\ p.recipient_id = <<>> /\ p.reply = <<>>
              /\ p.bounce_recipient = <<>>
           \/ /\ p.subject = <<"Undelivered Mail Returned to Sender">>
              /\ p.recipient_id = <<>> /\ p.reply = <<>>
              /\ p.bounce_recipient = <<BouncedAddress>>}

\* The tasks that call update_recipient: a send_email task and the reply
\* monitor of the hub.
Callers == {"send_email", "monitor_hub"}

NoUpdate ==
    [pc |-> "idle", id |-> 0, updates |-> send_email_updates, col |-> 0,
     email_id |-> 0, num_sent |-> 0, num_opened |-> 0, num_replied |-> 0,
     result |-> "ok", changed |-> FALSE]

\* ZMQUnsubscribeMessage { hub_id, email, reason }
ZMQUnsubscribeMessage(hub_id, email, reason) ==
    [type |-> "ZMQUnsubscribeMessage", hub_id |-> hub_id, email |-> email,
     reason |-> reason]

\* ZMQReplyMessage { hub_id, email, message: reply.unwrap_or_default(), subject }
ZMQReplyMessage(hub_id, email, reply, subject) ==
    [type |-> "ZMQReplyMessage", hub_id |-> hub_id, email |-> email,
     message |-> IF reply = <<>> THEN "" ELSE reply[1], subject |-> subject]

\* ------------------------------------------------------------------- IDLE
\* What an IDLE operation (init, wait, done) can fail with: an I/O error of
\* kind TimedOut, an I/O error of another kind, an error that is not I/O.
IdleErrKinds == {"TimedOut", "Io", "Other"}

NoIdleErr == [op |-> "none", kind |-> "none"]

\* wait.await returned Err(e): whether monitor_hub returns it.
IdleWaitFatalAlways(kind) == TRUE

IdleWaitFatal(kind) == kind # "TimedOut"

\* ------------------------------------------------ send_email and create_email
\* The send tasks run() spawns, one per bus message: two messages, each task
\* running send_email once.
Tasks == {"t1", "t2"}

HubIds == {MonitoredHub, OtherHub}

\* Per-recipient template variables: a HashMap<String, String>.
NoFields == {}

FavoriteColor == {<<"favorite_color", "blue">>}

FieldMaps == {NoFields, FavoriteColor}

\* NewEmailRecipient values of a request: with template variables at the odd
\* positions, without at the even ones.
NewEmailRecipient(i) ==
    IF i % 2 = 1
    THEN [address |-> "b@example.com", name |-> "Bob", fields |-> FavoriteColor]
    ELSE [address |-> "a@example.com", name |-> "Alice", fields |-> NoFields]

\* NewEmail.recipients: no recipient, one, ..., MaxRcpts.
Requests == {[i \in 1..k |-> NewEmailRecipient(i)] : k \in 0..MaxRcpts}

\* The fields of the EmailRecipient made from a row.  The column is NULL
\* (<<>>) or holds the JSON text of a map; null_map: what the conversion gives
\* for NULL.
fields_from_column(column, null_map) ==
    IF column = <<>> THEN null_map ELSE column[1]

\* DbNewEmailRecipient as create_email fills it: email_id, address, opened,
\* updated_at, is_sent, replied, name.  The fields column is not among them
\* and stays NULL.
DbNewEmailRecipient(item) ==
    [address |-> item.address, name |-> item.name, opened |-> FALSE,
     is_sent |-> FALSE, replied |-> FALSE, fields |-> <<>>]

\* The emails row create_email inserts, with its recipient rows.
DbNewEmail(hub_id, request) ==
    [hub_id |-> hub_id, request |-> request, recipients |-> <<>>, num_sent |-> 0]

RollbackKeepsRows(txn) == txn

\* What a transaction that fails leaves in the tables: nothing.
Rollback(txn) == <<>>

\* EmailWithRecipients made from the rows of email id.
EmailWithRecipients(id, row, null_map) ==
    [id |-> id, hub_id |-> row.hub_id,
     recipients |-> [i \in 1..Len(row.recipients) |->
        [pos |-> i, address |-> row.recipients[i].address,
         fields |-> fields_from_column(row.recipients[i].fields, null_map),
         is_sent |-> row.recipients[i].is_sent]]]

\* The (email, position) pairs stored with is_sent = true.
StoredSent(db) ==
    {<<e, i>> \in (1..Len(db)) \X (1..MaxRcpts + 1) :
        i <= Len(db[e].recipients) /\ db[e].recipients[i].is_sent}

already_sent_never(recipient) == FALSE

\* if recipient.is_sent { continue; }
already_sent(recipient) == recipient.is_sent

NoTask ==
    [pc |-> "idle", msg |-> "none", request |-> <<>>, email_id |-> 0,
     hub_id |-> 0, txn |-> <<>>, email |-> <<>>, pos |-> 0,
     attempted |-> {}, sent_ok |-> {}, failed |-> {}, updated |-> {},
     start_sent |-> {}, result |-> "none"]

\* ------------------------------------------------------------ several hubs
\* repo.list_hubs(): the hubs a supervisor task is spawned for.
Hubs == {1, 2}

\* The supervisor task of a hub before its first iteration: no monitor
\* spawned, no handle held.
NoSupervisor == [pc |-> "get_hub", handle |-> 0, tasks |-> <<>>]

\* A monitor task as tokio::spawn creates it, with the Hub value moved into it.
NewMonitor(imap_last_uid, configured) ==
    [pc |-> "start", result |-> "none", configured |-> configured,
     imap_last_uid |-> imap_last_uid, last_uid |-> 0, persisted_uid |-> 0]

\* A monitor task that has ended: its locals are dropped.
EndedMonitor(result) ==
    [pc |-> "returned", result |-> result, configured |-> FALSE,
     imap_last_uid |-> 0, last_uid |-> 0, persisted_uid |-> 0]

\* The monitor tasks of a hub that have not ended.
Live(h) == {i \in 1..Len(supervisor[h].tasks) : supervisor[h].tasks[i].pc # "returned"}

update_hubs_unfiltered(table, hub_id, uid) == [h \in DOMAIN table |-> uid]

\* UPDATE hubs SET imap_last_uid = uid WHERE id = hub_id.
update_hubs(table, hub_id, uid) == [table EXCEPT ![hub_id] = uid]

\* -------------------------------------------- Message-ID and In-Reply-To
\* Header text is a sequence of characters, each a string of length one.
Digits == <<"0", "1", "2", "3", "4", "5", "6", "7", "8", "9">>

IsDigit(c) == \E i \in 1..10 : Digits[i] = c

DigitVal(c) == (CHOOSE i \in 1..10 : Digits[i] = c) - 1

\* str::split(c): the segments between the occurrences of c, empty ones
\* included.
RECURSIVE split(_, _)
split(str, c) ==
    IF \A i \in 1..Len(str) : str[i] # c
    THEN <<str>>
    ELSE LET i == CHOOSE j \in 1..Len(str) :
                      str[j] = c /\ \A l \in 1..(j - 1) : str[l] # c
         IN  <<SubSeq(str, 1, i - 1)>> \o split(SubSeq(str, i + 1, Len(str)), c)

\* The value of a string of decimal digits.
RECURSIVE DecimalValue(_)
DecimalValue(str) ==
    IF str = <<>> THEN 0
    ELSE 10 * DecimalValue(SubSeq(str, 1, Len(str) - 1)) + DigitVal(str[Len(str)])

\* str::parse::<i32>(): an optional sign, then one or more decimal digits,
\* the value within the range of i32; Ok(v) is <<v>>, Err is <<>>.
parse(str) ==
    LET signed == str # <<>> /\ str[1] \in {"+", "-"}
        digits == IF signed THEN Tail(str) ELSE str
        value  == IF signed /\ str[1] = "-"
                  THEN 0 - DecimalValue(digits) ELSE DecimalValue(digits)
    IN  IF digits = <<>> \/ \E i \in 1..Len(digits) : ~IsDigit(digits[i])
        THEN <<>>
        ELSE IF value > I32Max \/ value < 0 - I32Max - 1 THEN <<>> ELSE <<value>>

\* i32 as format!("{}") writes it.
RECURSIVE to_string(_)
to_string(n) ==
    IF n < 0 THEN <<"-">> \o to_string(0 - n)
    ELSE IF n < 10 THEN <<Digits[n + 1]>>
    ELSE to_string(n \div 10) \o <<Digits[(n % 10) + 1]>>

\* The for loop of extract_recipient_id over the segments after each '<'.
RECURSIVE ExtractFrom(_, _)
ExtractFrom(segments, domain) ==
    IF segments = <<>> THEN <<>>
    ELSE LET candidate == split(Head(segments), ">")[1]
             parts == split(candidate, "@")
         IN  IF Len(parts) >= 2 /\ parts[2] = domain /\ parse(parts[1]) # <<>>
             THEN parse(parts[1])
             ELSE ExtractFrom(Tail(segments), domain)

\* extract_recipient_id(parsed, domain); header: the first In-Reply-To value
\* (<<>>: the message has none).
extract_recipient_id(header, domain) ==
    IF header = <<>> THEN <<>>
    ELSE ExtractFrom(Tail(split(header[1], "<")), domain)

\* The domains the workers are configured with.
Domains == {<<"d">>, <<"e">>}

message_id_domain_first(id, domain) == domain \o <<"@">> \o to_string(id)

\* message_id of build_message: format!("{}@{}", recipient.id.get(), domain);
\* the header carries it in angle brackets.
message_id(id, domain) == to_string(id) \o <<"@">> \o domain

MessageIdHeader(id, domain) == <<"<">> \o message_id(id, domain) \o <<">">>

\* What an In-Reply-To header is put together from.  token: the piece is an
\* angle-bracket token <id@domain>.
Piece(text, token, id, domain) ==
    [text |-> text, token |-> token, id |-> id, domain |-> domain]

Pieces ==
    { Piece(<<"<", "1", "@", "d", ">">>, TRUE, <<"1">>, <<"d">>),
      Piece(<<"<", "2", "@", "d", ">">>, TRUE, <<"2">>, <<"d">>),
      Piece(<<"<", "0", "@", "d", ">">>, TRUE, <<"0">>, <<"d">>),
      Piece(<<"<", "1", "@", "e", ">">>, TRUE, <<"1">>, <<"e">>),
      Piece(<<"<", "x", "@", "d", ">">>, TRUE, <<"x">>, <<"d">>),
      Piece(<<"<", "-", "1", "@", "d", ">">>, TRUE, <<"-", "1">>, <<"d">>),
      Piece(<<"<", "1", "@", "d", "d", ">">>, TRUE, <<"1">>, <<"d", "d">>),
      Piece(<<"<", "a", ">">>, FALSE, <<>>, <<>>),
      Piece(<<" ">>, FALSE, <<>>, <<>>),
      Piece(<<"1", "@", "d">>, FALSE, <<>>, <<>>) }

\* The In-Reply-To headers of received messages: none, or some pieces.
Headers ==
    {<<>>} \cup {<<ps>> : ps \in UNION {[1..n -> Pieces] : n \in 0..MaxPieces}}

RECURSIVE Text(_)
Text(ps) == IF ps = <<>> THEN <<>> ELSE Head(ps).text \o Text(Tail(ps))

NoCorrelation ==
    [step |-> "none", pieces |-> <<>>, sent |-> <<>>, header |-> <<>>,
     domain |-> <<>>, recipient_id |-> <<>>]

\* --------------------------------------------------------- reply extraction
\* Body text is a sequence of characters and words, each taken as a unit:
\* " ", "\n" and "\r" are white space, every other unit is text.
WhiteSpace == {" ", "\n", "\r"}

\* str::trim(): without the white space at both ends.
RECURSIVE trim_start(_)
trim_start(str) ==
    IF str # <<>> /\ Head(str) \in WhiteSpace THEN trim_start(Tail(str)) ELSE str

RECURSIVE trim_end(_)
trim_end(str) ==
    IF str # <<>> /\ str[Len(str)] \in WhiteSpace
    THEN trim_end(SubSeq(str, 1, Len(str) - 1)) ELSE str

trim_none(str) == str

trim(str) == trim_end(trim_start(str))

\* input.replace('\r', "")
remove_cr(str) == SelectSeq(str, LAMBDA c : c # "\r")

\* str::lines(): the segments between line feeds, without a last empty one.
lines(str) ==
    LET segments == split(str, "\n") IN
    IF segments[Len(segments)] = <<>>
    THEN SubSeq(segments, 1, Len(segments) - 1) ELSE segments

\* str::split("\n\n")
RECURSIVE split_paragraphs(_)
split_paragraphs(str) ==
    LET Breaks == {i \in 1..(Len(str) - 1) : str[i] = "\n" /\ str[i + 1] = "\n"} IN
    IF Breaks = {} THEN <<str>>
    ELSE LET i == CHOOSE j \in Breaks : \A l \in Breaks : j <= l
         IN  <<SubSeq(str, 1, i - 1)>> \o split_paragraphs(SubSeq(str, i + 2, Len(str)))

\* [String]::join("\n")
RECURSIVE join(_)
join(ls) ==
    IF ls = <<>> THEN <<>>
    ELSE IF Len(ls) = 1 THEN ls[1]
    ELSE ls[1] \o <<"\n">> \o join(Tail(ls))

\* lower.starts_with("on ") && lower.ends_with(" wrote:")
is_gmail_sep(trimmed) ==
    /\ Len(trimmed) >= 3
    /\ trimmed[1] = "on" /\ trimmed[2] = " "
    /\ trimmed[Len(trimmed) - 1] = " " /\ trimmed[Len(trimmed)] = "wrote:"

\* lower.contains("original message") and its translations
is_original_msg(trimmed) == \E i \in 1..Len(trimmed) : trimmed[i] = "original message"

\* lower.starts_with("from:") and the other header names
is_header_block(trimmed) == trimmed # <<>> /\ trimmed[1] = "from:"

\* trimmed.starts_with('>')
is_quoted(line) == trim(line) # <<>> /\ trim(line)[1] = ">"

\* The for loop of extract_reply_text over the lines still to come, with
\* the result_lines so far.
RECURSIVE ReplyLines(_, _)
ReplyLines(rest, result_lines) ==
    IF rest = <<>> THEN result_lines
    ELSE LET trimmed == trim(Head(rest)) IN
         IF trimmed = <<>>
         THEN ReplyLines(Tail(rest),
                         IF result_lines # <<>>
                         THEN Append(result_lines, <<>>) ELSE result_lines)
         ELSE IF is_gmail_sep(trimmed) \/ is_original_msg(trimmed)
         THEN result_lines
         ELSE IF is_header_block(trimmed) /\ result_lines # <<>>
         THEN result_lines
         ELSE IF is_quoted(trimmed)
         THEN ReplyLines(Tail(rest), result_lines)
         ELSE ReplyLines(Tail(rest), Append(result_lines, trimmed))

\* The fallback of extract_reply_text: the first paragraph that is not
\* empty once its quoted lines are left out.
RECURSIVE FirstParagraph(_)
FirstParagraph(paras) ==
    IF paras = <<>> THEN <<>>
    ELSE LET kept == SelectSeq(lines(Head(paras)), LAMBDA l : ~is_quoted(l))
             para == trim(join(kept))
         IN  IF para # <<>> THEN para ELSE FirstParagraph(Tail(paras))

extract_reply_text(input) ==
    LET normalized == remove_cr(input)
        reply == trim(join(ReplyLines(lines(normalized), <<>>)))
    IN  IF reply = <<>>
        THEN FirstParagraph(split_paragraphs(normalized))
        ELSE reply

\* The lines bodies are made of: empty and blank lines, content, quoted
\* lines, an "On ... wrote:" separator, an original-message marker, a quoted
\* header.
BodyLines ==
    { <<>>,
      <<" ">>,
      <<"hi">>,
      <<" ", "hi", " ", "\r">>,
      <<">", "hi">>,
      <<" ", ">", ">", "hi">>,
      <<"on", " ", "Tue", " ", "wrote:">>,
      <<"--", "original message", "--">>,
      <<"from:", " ", "hi">> }

Bodies == {join(ls) : ls \in UNION {[1..n -> BodyLines] : n \in 0..MaxLines}}

NoCleaning == [step |-> "none", input |-> <<>>, once |-> <<>>, twice |-> <<>>]

\* -------------------------------------------------------- template rendering
\* Template text is a sequence of units: "{", "}", white space, and words
\* made of letters, digits and '_'.
IsIdentifier(c) == c \notin {"{", "}", " ", "\n", "-"}

\* Where the match of \{([\p{L}\p{N}_]+?)\} that starts at the head of str
\* ends (0: there is no match there).
TokenEnd(str) ==
    IF str = <<>> \/ str[1] # "{" THEN 0
    ELSE LET Closing == {j \in 3..Len(str) :
                            /\ str[j] = "}"
                            /\ \A l \in 2..(j - 1) : IsIdentifier(str[l])}
         IN  IF Closing = {} THEN 0
             ELSE CHOOSE j \in Closing : \A l \in Closing : j <= l

\* PLACEHOLDER_RE.replace_all over str, left to right; unknown: what a match
\* whose key is not in values is replaced by, given the match.
RECURSIVE ReplaceAll(_, _, _)
ReplaceAll(str, values, keep_unknown) ==
    IF str = <<>> THEN <<>>
    ELSE IF TokenEnd(str) = 0
    THEN <<str[1]>> \o ReplaceAll(Tail(str), values, keep_unknown)
    ELSE LET end == TokenEnd(str)
             key == SubSeq(str, 2, end - 1)
             replacement ==
                 IF key \in DOMAIN values THEN values[key]
                 ELSE IF keep_unknown THEN SubSeq(str, 1, end) ELSE <<>>
         IN  replacement \o ReplaceAll(SubSeq(str, end + 1, Len(str)), values,
                                       keep_unknown)

fill_template_dropping(template, values) == ReplaceAll(template, values, FALSE)

\* fill_template: {key} becomes values[key], an unknown {key} stays.
fill_template(template, values) == ReplaceAll(template, values, TRUE)

\* str::contains
contains(str, pat) ==
    \E i \in 1..(Len(str) - Len(pat) + 1) : SubSeq(str, i, i + Len(pat) - 1) = pat

MessageToken == <<"{", "message", "}">>

\* The tracking pixel pushed onto the body.
TrackingPixel == <<"<img>">>

\* Steps 1 to 4 of build_message and the tracking pixel: the body of the
\* message.  email_template: <<>> or <<text>>.
build_message(email_template, message, name, unsubscribe_url, fields) ==
    LET rendered_message == fill_template(message, fields)
        template == IF email_template = <<>> THEN MessageToken
                    ELSE email_template[1]
        with_message == IF contains(template, MessageToken) THEN template
                        ELSE template \o <<"\n", "\n">> \o MessageToken
        outer == (<<"name">> :> name) @@ (<<"unsubscribe_url">> :> unsubscribe_url)
                     @@ (<<"message">> :> rendered_message)
    IN  fill_template(with_message, outer) \o TrackingPixel

\* A piece of template text: a {key} token, or text that holds none.
TemplateToken(key) ==
    [text |-> <<"{">> \o key \o <<"}">>, token |-> TRUE, key |-> key]

TemplateText(text) == [text |-> text, token |-> FALSE, key |-> <<>>]

\* What email messages are made of.
MessagePieces ==
    { TemplateText(<<"Hello">>),
      TemplateText(<<"{", "favourite", " ", "fruit", "}">>),
      TemplateToken(<<"favorite_color">>),
      TemplateToken(<<"unknown">>),
      TemplateToken(<<"name">>) }

\* What hub templates are made of.
HubTemplatePieces ==
    { TemplateText(<<"Hi">>),
      TemplateToken(<<"name">>),
      TemplateToken(<<"message">>),
      TemplateToken(<<"unsubscribe_url">>),
      TemplateToken(<<"unknown">>) }

PieceSeqs(pieces) == UNION {[1..n -> pieces] : n \in 0..MaxTemplatePieces}

\* recipient.fields: none, a value, a value that reads like a token.
NoVars == <<>>

RecipientFields ==
    { NoVars,
      <<"favorite_color">> :> <<"blue">>,
      <<"favorite_color">> :> <<"{", "name", "}">> }

RecipientName == <<"Alice">>

UnsubscribeUrl == <<"mailto:sender">>

NoRendering ==
    [step |-> "none", message |-> <<>>, email_template |-> <<>>,
     fields |-> NoVars, body |-> <<>>]

\* -------------------------------------------------------------------- Init
NoRun ==
    /\ last_uid = 0 /\ persisted_uid = 0 /\ cutoff_uid = 0
    /\ batch = <<>> /\ cur = 0
    /\ curMsg = "none" /\ curRepo = "none" /\ curPub = "none"
    /\ setCalls = <<>> /\ lastWrite = "none" /\ lastSearch = "none"
    /\ searchFrom = 0 /\ batchAll = <<>> /\ batchFresh = TRUE
    /\ idleErr = NoIdleErr

Init ==
    /\ mailbox = {} /\ uidNext = 1
    /\ stored = 0
    /\ supPc = "get_hub" /\ hub = NoHub
    /\ monPc = "none" /\ monResult = "none"
    /\ NoRun
    /\ runDone = {} /\ doneBefore = {}
    /\ faults = 0 /\ expunged = 0
    /\ msgPc = "fetch" /\ curParsed = NoParsed
    /\ calls = <<>> /\ pending = <<>> /\ bus = <<>>
    /\ redo = FALSE /\ prevCalls = <<>> /\ numProcessed = 0
    /\ recipients = [r \in RecipientIds |->
                        [is_sent |-> FALSE, opened |-> FALSE, replied |-> FALSE,
                         reply |-> <<>>]]
    /\ emails = [e \in EmailIds |->
                    [num_sent |-> 0, num_opened |-> 0, num_replied |-> 0]]
    /\ upd = [c \in Callers |-> NoUpdate]
    /\ sameRow = FALSE /\ numUpdates = 0
    /\ unsubscribes = <<>>
    /\ sdb = <<>> /\ task = [t \in Tasks |-> NoTask]
    /\ nullFields = <<>>
    /\ hubTable = [h \in Hubs |-> 0]
    /\ supervisor = [h \in Hubs |-> NoSupervisor]
    /\ correlation = NoCorrelation
    /\ cleaning = NoCleaning
    /\ rendering = NoRendering

\* A failure is injected while the budget lasts.
Fault == faults < MaxFaults /\ faults' = faults + 1

\* ------------------------------------------------------------- IMAP server
\* A message arrives and gets the next UID.
Deliver ==
    /\ uidNext <= MaxUid
    /\ mailbox' = mailbox \cup {uidNext}
    /\ uidNext' = uidNext + 1
    /\ UNCHANGED <<stored, supVars, monVars, histVars, budgetVars>>
    /\ UNCHANGED mailVars

\* A message is deleted from the mailbox.
Expunge ==
    /\ expunged < MaxExpunge
    /\ \E u \in mailbox : mailbox' = mailbox \ {u}
    /\ expunged' = expunged + 1
    /\ UNCHANGED <<uidNext, stored, supVars, monVars, histVars, faults>>
    /\ UNCHANGED mailVars

\* ---------------------------------------------------- supervisor (mod.rs run)
\* repo.get_hub_by_id fails, or finds no row for the hub: log, sleep and
\* retry.
run_get_hub_err ==
    /\ supPc = "get_hub"
    /\ Fault
    /\ supPc' = "sleep"
    /\ UNCHANGED <<envVars, stored, hub, monVars, histVars, expunged>>
    /\ UNCHANGED mailVars

\* repo.get_hub_by_id returns the hub row as it is now; monitor_hub is spawned
\* with it.  The IMAP settings of the row are maintained out of band; a row
\* without them is counted as a failure.  record: whether the history of
\* completed UIDs is kept.
Spawn(record) ==
    /\ supPc = "get_hub"
    /\ \E c \in BOOLEAN :
          /\ hub' = [imap_last_uid |-> stored, configured |-> c]
          /\ IF c THEN UNCHANGED faults ELSE Fault
    /\ supPc' = "await"
    /\ monPc' = "start" /\ monResult' = "none"
    /\ doneBefore' = (IF record THEN doneBefore \cup runDone ELSE doneBefore)
    /\ runDone' = {}
    /\ UNCHANGED <<envVars, stored, last_uid, persisted_uid, cutoff_uid, batch,
                   cur, curMsg, curRepo, curPub, setCalls, lastWrite, lastSearch,
                   searchFrom, batchAll, batchFresh, idleErr, expunged>>
    /\ UNCHANGED mailVars

run_spawn == Spawn(FALSE)

run_spawn_recorded == Spawn(TRUE)

run_join_gives_up ==
    /\ supPc = "await" /\ monPc = "returned"
    /\ supPc' = "exited"
    /\ monPc' = "none"
    /\ hub' = NoHub
    /\ idleErr' = NoIdleErr
    /\ UNCHANGED <<envVars, stored, monResult, last_uid, persisted_uid,
                   cutoff_uid, batch, cur, curMsg, curRepo, curPub, setCalls,
                   lastWrite, lastSearch, searchFrom, batchAll, batchFresh,
                   runDone, doneBefore, budgetVars>>
    /\ UNCHANGED mailVars

\* handle.await yields Ok(Err(e)) or Err(JoinError): log, then back off.
run_join ==
    /\ supPc = "await" /\ monPc = "returned"
    /\ supPc' = "sleep"
    /\ monPc' = "none"
    /\ hub' = NoHub
    /\ idleErr' = NoIdleErr
    /\ UNCHANGED <<envVars, stored, monResult, last_uid, persisted_uid,
                   cutoff_uid, batch, cur, curMsg, curRepo, curPub, setCalls,
                   lastWrite, lastSearch, searchFrom, batchAll, batchFresh,
                   runDone, doneBefore, budgetVars>>
    /\ UNCHANGED mailVars

\* tokio::time::sleep is over.
run_backoff ==
    /\ supPc = "sleep"
    /\ supPc' = "get_hub"
    /\ UNCHANGED <<envVars, stored, hub, monVars, histVars, budgetVars>>
    /\ UNCHANGED mailVars

\* ------------------------------------------------------------- monitor_hub
\* monitor_hub ends: the task's locals are dropped.  The caller says which
\* IDLE error, if any, ended it.
Return(result) ==
    /\ monPc' = "returned"
    /\ monResult' = result
    /\ last_uid' = 0 /\ persisted_uid' = 0 /\ cutoff_uid' = 0
    /\ batch' = <<>> /\ cur' = 0
    /\ curMsg' = "none" /\ curRepo' = "none" /\ curPub' = "none"
    /\ setCalls' = <<>> /\ lastWrite' = "none" /\ lastSearch' = "none"
    /\ searchFrom' = 0 /\ batchAll' = <<>> /\ batchFresh' = TRUE
    /\ UNCHANGED <<envVars, stored, supVars, runDone, doneBefore, expunged>>

monitor_hub_config_connects ==
    /\ monPc = "start" /\ ~hub.configured
    /\ last_uid' = hub.imap_last_uid
    /\ persisted_uid' = hub.imap_last_uid
    /\ monPc' = "initial_search"
    /\ UNCHANGED <<envVars, stored, supVars, monResult, cutoff_uid, batch, cur,
                   curMsg, curRepo, curPub, histVars, budgetVars>>
    /\ UNCHANGED mailVars

\* The hub lacks IMAP settings: Err(Error::Config).
monitor_hub_config_err ==
    /\ monPc = "start" /\ ~hub.configured
    /\ Return("err")
    /\ UNCHANGED <<faults, idleErr>>
    /\ UNCHANGED mailVars

\* init_session(...).await? fails.
monitor_hub_connect_err ==
    /\ monPc = "start" /\ hub.configured
    /\ Fault
    /\ Return("err")
    /\ UNCHANGED idleErr
    /\ UNCHANGED mailVars

\* init_session succeeds; last_uid and persisted_uid start from the hub value.
monitor_hub_connect ==
    /\ monPc = "start" /\ hub.configured
    /\ last_uid' = hub.imap_last_uid
    /\ persisted_uid' = hub.imap_last_uid
    /\ monPc' = "initial_search"
    /\ UNCHANGED <<envVars, stored, supVars, monResult, cutoff_uid, batch, cur,
                   curMsg, curRepo, curPub, histVars, budgetVars>>
    /\ UNCHANGED mailVars

SearchHistory(result, uids) ==
    /\ lastSearch' = result
    /\ searchFrom' = last_uid
    /\ batchAll' = uids
    /\ batchFresh' = \A u \in Range(uids) : u > stored /\ u <= I32Max
    /\ setCalls' = <<>>

\* The initial backlog search failed: logged, an empty set is drained.
initial_search_err ==
    /\ monPc = "initial_search"
    /\ Fault
    /\ cutoff_uid' = last_uid
    /\ batch' = <<>>
    /\ monPc' = "for"
    /\ SearchHistory("err", <<>>)
    /\ UNCHANGED <<envVars, stored, supVars, monResult, last_uid, persisted_uid,
                   cur, curMsg, curRepo, curPub, lastWrite, runDone, doneBefore, idleErr, expunged>>
    /\ UNCHANGED mailVars

\* The initial backlog search: "UID last_uid+1:*", sorted, without cutoff_uid.
initial_search ==
    /\ monPc = "initial_search"
    /\ cutoff_uid' = last_uid
    /\ \E order \in Orders(uid_search(saturating_add1(last_uid))) :
          /\ batch' = FilterNot(ordered_uids(order), last_uid)
          /\ SearchHistory("ok", batch')
    /\ monPc' = "for"
    /\ UNCHANGED <<envVars, stored, supVars, monResult, last_uid, persisted_uid,
                   cur, curMsg, curRepo, curPub, lastWrite, runDone, doneBefore, idleErr,
                   budgetVars>>
    /\ UNCHANGED mailVars

\* The for loop is exhausted: on to the IDLE loop.  What was recorded about
\* the batch is dropped with it.
for_done ==
    /\ monPc = "for" /\ batch = <<>>
    /\ monPc' = "idle_init"
    /\ curMsg' = "none" /\ curRepo' = "none" /\ curPub' = "none"
    /\ setCalls' = <<>> /\ lastWrite' = "none" /\ lastSearch' = "none"
    /\ searchFrom' = 0 /\ batchAll' = <<>> /\ batchFresh' = TRUE
    /\ UNCHANGED <<envVars, stored, supVars, monResult, last_uid, persisted_uid,
                   cutoff_uid, batch, cur, runDone, doneBefore, idleErr, budgetVars>>
    /\ UNCHANGED mailVars

\* The for loop takes its next UID.
TakeUid ==
    /\ monPc = "for" /\ batch # <<>>
    /\ cur' = Head(batch)
    /\ batch' = Tail(batch)

early_return_plan_reply == [repo |-> "none", pub |-> "reply"]

\* What process_new_message does after a failed fetch or parse: it returns,
\* with no repository write and no bus message.
early_return_plan == [repo |-> "none", pub |-> "none"]

\* process_new_message(uid): the message has vanished (fetch_message_rfc822
\* yields None) or cannot be parsed (parse_email yields Err, logged); either
\* way it returns at once.
process_new_message_skip ==
    /\ TakeUid
    /\ curMsg' \in {"vanished", "unparsed"}
    /\ curRepo' = "none"
    /\ curPub' = IF early_return_plan.pub = "none" THEN "none" ELSE "pending"
    /\ monPc' = IF early_return_plan.pub = "none" THEN "persist" ELSE "publish"
    /\ UNCHANGED <<envVars, stored, supVars, monResult, last_uid, persisted_uid,
                   cutoff_uid, histVars, budgetVars>>
    /\ UNCHANGED mailVars

\* process_new_message(uid) up to the bus publish: fetch, parse, classify and
\* the repository write (unsubscribe_recipient or update_recipient), whose
\* failure is logged.
process_new_message ==
    /\ TakeUid
    /\ curMsg' = "parsed"
    /\ \E plan \in ProcessPlans :
          /\ \/ curRepo' = (IF plan.repo = "none" THEN "none" ELSE "ok")
                /\ UNCHANGED faults
             \/ plan.repo # "none" /\ curRepo' = "fail" /\ Fault
          /\ curPub' = IF plan.pub = "none" THEN "none" ELSE "pending"
          /\ monPc' = IF plan.pub = "none" THEN "persist" ELSE "publish"
    /\ UNCHANGED <<envVars, stored, supVars, monResult, last_uid, persisted_uid,
                   cutoff_uid, histVars, expunged>>
    /\ UNCHANGED mailVars

\* zmq_sender.send_json(&message).await, Ok or Err (logged); then
\* process_new_message returns.
Publish(record) ==
    /\ monPc = "publish"
    /\ \/ curPub' = "sent" /\ UNCHANGED faults
       \/ curPub' = "fail" /\ Fault
    /\ runDone' = IF record /\ curRepo = "ok" /\ curPub' = "sent"
                  THEN runDone \cup {cur} ELSE runDone
    /\ monPc' = "persist"
    /\ UNCHANGED <<envVars, stored, supVars, monResult, last_uid, persisted_uid,
                   cutoff_uid, batch, cur, curMsg, curRepo, setCalls, lastWrite, lastSearch,
                   searchFrom, batchAll, batchFresh, doneBefore, idleErr, expunged>>
    /\ UNCHANGED mailVars

process_new_message_publish == Publish(FALSE)

process_new_message_publish_recorded == Publish(TRUE)

\* last_uid = uid; persist_last_processed_uid(&repo, hub.id, &mut persisted_uid, uid)
PersistStep(write_ok) ==
    LET r == persist_last_processed_uid(
                 persisted_uid, PersistCandidate(cur, batch), write_ok) IN
    /\ monPc = "persist"
    /\ last_uid' = cur
    /\ persisted_uid' = r.stored_uid
    /\ stored' = IF r.called THEN set_imap_last_uid(stored, r.arg, write_ok)
                 ELSE stored
    /\ setCalls' = IF r.called THEN Append(setCalls, r.arg) ELSE setCalls
    /\ lastWrite' = IF ~r.called THEN lastWrite
                    ELSE IF write_ok THEN "ok" ELSE "err"
    /\ monPc' = "for"
    /\ UNCHANGED <<envVars, supVars, monResult, cutoff_uid, batch, cur, curMsg, curRepo,
                   curPub, lastSearch, searchFrom, batchAll, batchFresh, runDone,
                   doneBefore, idleErr, expunged>>

persist ==
    /\ PersistStep(TRUE)
    /\ UNCHANGED faults
    /\ UNCHANGED mailVars

\* set_imap_last_uid returns Err: logged.
persist_write_err ==
    /\ persist_last_processed_uid(
           persisted_uid, PersistCandidate(cur, batch), FALSE).called
    /\ PersistStep(FALSE)
    /\ Fault
    /\ UNCHANGED mailVars

MonitorOnlyPc ==
    UNCHANGED <<envVars, stored, supVars, monResult, last_uid, persisted_uid,
                cutoff_uid, batch, cur, curMsg, curRepo, curPub, histVars, budgetVars>>

\* idle.init().await
idle_init ==
    /\ monPc = "idle_init"
    /\ monPc' = "idle_wait"
    /\ MonitorOnlyPc
    /\ UNCHANGED mailVars

idle_init_err ==
    /\ monPc = "idle_init"
    /\ Fault
    /\ \E kind \in IdleErrKinds : idleErr' = [op |-> "init", kind |-> kind]
    /\ Return("err")
    /\ UNCHANGED mailVars

idle_wait_push_only ==
    /\ monPc = "idle_wait"
    /\ \E u \in mailbox : u > last_uid
    /\ monPc' = "idle_done"
    /\ idleErr' = NoIdleErr
    /\ UNCHANGED <<envVars, stored, supVars, monResult, last_uid, persisted_uid,
                   cutoff_uid, batch, cur, curMsg, curRepo, curPub, setCalls,
                   lastWrite, lastSearch, searchFrom, batchAll, batchFresh,
                   runDone, doneBefore, budgetVars>>
    /\ UNCHANGED mailVars

\* wait.await returns Ok: a server notification or the keepalive.
idle_wait ==
    /\ monPc = "idle_wait"
    /\ monPc' = "idle_done"
    /\ idleErr' = NoIdleErr
    /\ UNCHANGED <<envVars, stored, supVars, monResult, last_uid, persisted_uid,
                   cutoff_uid, batch, cur, curMsg, curRepo, curPub, setCalls,
                   lastWrite, lastSearch, searchFrom, batchAll, batchFresh,
                   runDone, doneBefore, budgetVars>>
    /\ UNCHANGED mailVars

\* wait.await returns Err(e): TimedOut falls through to idle.done(), any
\* other error is returned.
idle_wait_err ==
    /\ monPc = "idle_wait"
    /\ \E kind \in IdleErrKinds :
          /\ idleErr' = [op |-> "wait", kind |-> kind]
          /\ IF IdleWaitFatal(kind)
             THEN Fault /\ Return("err")
             ELSE /\ monPc' = "idle_done"
                  /\ UNCHANGED <<envVars, stored, supVars, monResult, last_uid,
                                 persisted_uid, cutoff_uid, batch, cur, curMsg,
                                 curRepo, curPub, setCalls, lastWrite,
                                 lastSearch, searchFrom, batchAll, batchFresh,
                                 runDone, doneBefore, budgetVars>>
    /\ UNCHANGED mailVars

\* idle.done().await
idle_done ==
    /\ monPc = "idle_done"
    /\ monPc' = "search"
    /\ MonitorOnlyPc
    /\ UNCHANGED mailVars

idle_done_err ==
    /\ monPc = "idle_done"
    /\ Fault
    /\ \E kind \in IdleErrKinds : idleErr' = [op |-> "done", kind |-> kind]
    /\ Return("err")
    /\ UNCHANGED mailVars

\* The search after IDLE failed: logged, `continue` to the next IDLE.
loop_search_err ==
    /\ monPc = "search"
    /\ Fault
    /\ monPc' = "idle_init"
    /\ batch' = <<>>
    /\ SearchHistory("err", <<>>)
    /\ UNCHANGED <<envVars, stored, supVars, monResult, last_uid, persisted_uid,
                   cutoff_uid, cur, curMsg, curRepo, curPub, lastWrite, runDone,
                   doneBefore, idleErr, expunged>>
    /\ UNCHANGED mailVars

\* The search after IDLE: "UID last_uid+1:*", sorted.
loop_search ==
    /\ monPc = "search"
    /\ \E order \in Orders(uid_search(saturating_add1(last_uid))) :
          /\ batch' = ordered_uids(order)
          /\ SearchHistory("ok", batch')
    /\ monPc' = "for"
    /\ UNCHANGED <<envVars, stored, supVars, monResult, last_uid, persisted_uid,
                   cutoff_uid, cur, curMsg, curRepo, curPub, lastWrite, runDone,
                   doneBefore, idleErr, budgetVars>>
    /\ UNCHANGED mailVars

\* The monitor task panics at any point from init_session on; the check of
\* the hub's settings before it has nothing that can panic.
monitor_abort ==
    /\ monPc \notin {"none", "returned"}
    /\ monPc = "start" => hub.configured
    /\ Fault
    /\ idleErr' = NoIdleErr
    /\ Return("panic")
    /\ UNCHANGED mailVars

\* Every step but the two that touch the history of completed UIDs.
Steps ==
    \/ Deliver \/ Expunge
    \/ run_get_hub_err \/ run_join \/ run_backoff
    \/ monitor_hub_config_err \/ monitor_hub_connect_err \/ monitor_hub_connect
    \/ initial_search_err \/ initial_search
    \/ for_done \/ process_new_message_skip \/ process_new_message
    \/ persist \/ persist_write_err
    \/ idle_init \/ idle_init_err \/ idle_wait \/ idle_wait_err
    \/ idle_done \/ idle_done_err
    \/ loop_search_err \/ loop_search
    \/ monitor_abort

Next == Steps \/ run_spawn \/ process_new_message_publish

Spec == Init /\ [][Next]_vars

\* The same program with the scheduling of the supervisor task: handle.await
\* returns once the monitor has ended, a sleep ends, and the supervisor, once
\* runnable, is run.
SpecFair ==
    /\ Init /\ [][Next]_vars
    /\ WF_vars(run_join) /\ WF_vars(run_backoff) /\ WF_vars(run_spawn)
    /\ WF_vars(monitor_hub_config_err)

\* The steps monitor_hub takes when nothing fails.  wait.await is among
\* them: the keepalive task of the wait drops `stop` after its sleep.
MonitorProgress ==
    \/ monitor_hub_connect \/ initial_search
    \/ for_done \/ process_new_message_skip \/ process_new_message
    \/ process_new_message_publish \/ persist
    \/ idle_init \/ idle_wait \/ idle_done \/ loop_search

\* The same program with the scheduling of the monitor task: a monitor that
\* can take a step does take one.
SpecIdle == Init /\ [][Next]_vars /\ WF_vars(MonitorProgress)

\* The same program with the history of completed UIDs recorded.
NextRedo == Steps \/ run_spawn_recorded \/ process_new_message_publish_recorded

SpecRedo == Init /\ [][NextRedo]_vars

\* ------------------------------------- process_new_message, call by call
\* The repository calls of process_new_message, with their results.
UnsubscribeCall(email, hub_id, reason, ok) ==
    [op |-> "unsubscribe_recipient", email |-> email, hub_id |-> hub_id,
     reason |-> reason, result |-> ok]

GetRecipientCall(id, hub_id, row) ==
    [op |-> "get_email_recipient_by_id", id |-> id, hub_id |-> hub_id,
     result |-> row]

UpdateCall(id, updates, ok) ==
    [op |-> "update_recipient", id |-> id, updates |-> updates, result |-> ok]

\* fetch_message_rfc822 yields the raw message and parse_email a ParsedEmail,
\* one of messages.
Parse(messages) ==
    /\ msgPc = "fetch"
    /\ curParsed' \in messages
    /\ calls' = <<>> /\ pending' = <<>> /\ bus' = <<>>
    /\ msgPc' = "classify"
    /\ UNCHANGED <<coreVars, sendVars, faults, repoVars, redo, prevCalls, numProcessed>>

msg_parse == Parse(ParsedMessages)

msg_parse_stored == Parse(StoredMessages)

\* process_new_message from the subject tests to the bus message it builds:
\* the branch taken, the repository calls made (a failed call is logged and
\* counted as a failure) and the message handed to send_json.  store: the
\* tables are followed, and the calls write to them; a failed
\* update_recipient leaves the UPDATEs it had made.
Classify(store) ==
    /\ msgPc = "classify"
    /\ IF store
       THEN numProcessed < MaxProcessed /\ numProcessed' = numProcessed + 1
       ELSE UNCHANGED numProcessed
    /\ \E id_ok \in (IF curParsed.recipient_id = <<>> THEN {TRUE}
                      ELSE EmailRecipientIdOk(curParsed.recipient_id[1])),
          lookup_ok \in BOOLEAN, write_ok \in BOOLEAN, reply_ok \in BOOLEAN :
          LET p == curParsed
              tried == p.recipient_id # <<>> /\ id_ok
              found == IF tried
                       THEN get_email_recipient_by_id(p.recipient_id[1], MonitoredHub)
                       ELSE <<>>
              row == IF ~lookup_ok THEN "err"
                     ELSE IF found # <<>> THEN "some" ELSE "none"
              plan == process_plan(Classified(p), id_ok, row)
              looked == plan.repo # "unsubscribe" /\ tried
              failures == (IF lookup_ok THEN 0 ELSE 1) + (IF write_ok THEN 0 ELSE 1)
              updates == process_reply_updates(IF reply_ok THEN p.reply ELSE <<>>)
          IN  /\ ~looked => lookup_ok
              /\ IF store /\ plan.repo = "update"
                 THEN \E written \in (IF write_ok THEN {Len(UpdateOrder)}
                                      ELSE 0..Len(UpdateOrder)) :
                      LET table == ApplyColumns(recipients, found[1], updates,
                                                1, written)
                      IN /\ recipients' = table
                         /\ emails' = IF write_ok
                                       THEN [emails EXCEPT ![EmailOf(found[1])] =
                                                recompute_counters(
                                                    table, EmailOf(found[1]), @)]
                                       ELSE emails
                 ELSE UNCHANGED <<recipients, emails>>
              /\ unsubscribes' =
                    IF store /\ plan.repo = "unsubscribe" /\ write_ok
                    THEN unsubscribe_recipient(unsubscribes, unsubscribe_email(p),
                                               MonitoredHub, p.subject)
                    ELSE unsubscribes
              /\ plan.repo = "none" => write_ok
              /\ ~(plan.repo = "update" /\ p.reply # <<>>) => reply_ok
              /\ faults + failures <= MaxFaults
              /\ faults' = faults + failures
              /\ calls' =
                    IF plan.repo = "unsubscribe"
                    THEN <<UnsubscribeCall(unsubscribe_email(p), MonitoredHub,
                                           p.subject, write_ok)>>
                    ELSE (IF looked
                          THEN <<GetRecipientCall(p.recipient_id[1], MonitoredHub, row)>>
                          ELSE <<>>)
                         \o (IF plan.repo = "update"
                             THEN <<UpdateCall(found[1], updates, write_ok)>>
                             ELSE <<>>)
              /\ pending' =
                    IF plan.pub = "unsubscribe"
                    THEN <<ZMQUnsubscribeMessage(MonitoredHub, unsubscribe_email(p),
                                                 p.subject)>>
                    ELSE IF plan.pub = "reply"
                    THEN <<ZMQReplyMessage(MonitoredHub, p.sender_email[1], p.reply,
                                           p.subject)>>
                    ELSE <<>>
              /\ msgPc' = IF plan.pub = "none" THEN "done" ELSE "publish"
    /\ UNCHANGED <<coreVars, sendVars, curParsed, bus, upd, sameRow, numUpdates,
                   redo, prevCalls>>

msg_classify == Classify(FALSE)

msg_classify_stored == Classify(TRUE)

\* zmq_sender.send_json(&message).await: Ok, or Err (logged).
msg_publish ==
    /\ msgPc = "publish"
    /\ \E ok \in BOOLEAN :
          /\ bus' = Append(bus, [message |-> pending[1], result |-> ok])
          /\ IF ok THEN UNCHANGED faults ELSE Fault
    /\ pending' = <<>>
    /\ msgPc' = "done"
    /\ UNCHANGED <<coreVars, sendVars, curParsed, calls, repoVars, redo, prevCalls, numProcessed>>

\* process_new_message returns and its locals are dropped: on to the next
\* message.
msg_return ==
    /\ msgPc = "done"
    /\ msgPc' = "fetch"
    /\ curParsed' = NoParsed
    /\ calls' = <<>> /\ pending' = <<>> /\ bus' = <<>>
    /\ redo' = FALSE /\ prevCalls' = <<>>
    /\ UNCHANGED <<coreVars, sendVars, faults, repoVars, numProcessed>>

\* The monitor stops before the watermark of the message is written; the
\* next run finds the same message above the stored watermark and hands it to
\* process_new_message again.
msg_redo ==
    /\ msgPc = "done" /\ ~redo
    /\ msgPc' = "classify"
    /\ redo' = TRUE /\ prevCalls' = calls
    /\ calls' = <<>> /\ pending' = <<>> /\ bus' = <<>>
    /\ UNCHANGED <<coreVars, sendVars, faults, curParsed, repoVars, numProcessed>>

NextMsg == msg_parse \/ msg_classify \/ msg_publish \/ msg_return

\* process_new_message on its own, message after message.
SpecMsg == Init /\ [][NextMsg]_vars

NextStored ==
    \/ msg_parse_stored \/ msg_classify_stored \/ msg_publish \/ msg_return
    \/ msg_redo

\* process_new_message over the recipient, email and unsubscribe tables,
\* message after message, a message possibly twice.
SpecStored == Init /\ [][NextStored]_vars

\* ------------------------------------ update_recipient, statement by statement
\* A statement of caller c fails: update_recipient returns Err through `?`,
\* and what it has written stays written.
update_fail(c) ==
    /\ upd[c].pc # "idle"
    /\ Fault
    /\ upd' = [upd EXCEPT ![c] =
                  [NoUpdate EXCEPT !.result = "err", !.changed = upd[c].changed]]
    /\ UNCHANGED <<coreVars, sendVars, unsubscribes, msgVars, recipients, emails, sameRow, numUpdates>>

\* Where update_recipient goes after the column at position k.
AfterColumn(u, k) ==
    LET j == NextColumn(u.updates, k) IN
    IF j = 0 THEN [u EXCEPT !.pc = "count_sent", !.col = 0]
    ELSE [u EXCEPT !.pc = "column", !.col = j]

\* Caller c calls update_recipient(id, updates).
Call(c, id, updates) ==
    /\ upd[c].pc = "idle"
    /\ upd' = [upd EXCEPT ![c] =
                  [NoUpdate EXCEPT !.pc = "select", !.id = id, !.updates = updates]]
    /\ sameRow' = (sameRow \/ \E o \in Callers \ {c} :
                                   upd[o].pc # "idle" /\ upd[o].id = id)
    /\ numUpdates < MaxUpdates /\ numUpdates' = numUpdates + 1
    /\ UNCHANGED <<coreVars, sendVars, unsubscribes, budgetVars, msgVars, recipients, emails>>

\* send_email, working on the email of the monitored hub: the mailer has sent
\* the message to a recipient whose row was loaded with is_sent = false; the
\* row is marked sent.
send_email_update ==
    \E id \in RecipientIds :
        /\ EmailOf(id) = MonitoredHub
        /\ ~recipients[id].is_sent
        /\ Call("send_email", id, send_email_updates)

\* process_reply(recipient, reply) for a row get_email_recipient_by_id found
\* in the monitored hub.
process_reply ==
    \E id \in RecipientIds, reply \in Option({"Thanks!"}) :
        /\ get_email_recipient_by_id(id, MonitoredHub) # <<>>
        /\ Call("monitor_hub", id, process_reply_updates(reply))

\* SELECT email_id FROM email_recipients WHERE id = recipient_id
update_select(c) ==
    /\ upd[c].pc = "select"
    /\ upd' = [upd EXCEPT ![c] =
                  AfterColumn([@ EXCEPT !.email_id = EmailOf(upd[c].id)], 1)]
    /\ UNCHANGED <<coreVars, sendVars, unsubscribes, budgetVars, msgVars, recipients, emails, sameRow, numUpdates>>

\* One UPDATE of a column the updates ask for.
update_column(c) ==
    LET u == upd[c]
        column == UpdateOrder[u.col]
        value == u.updates[column][1]
        table == SetColumn(recipients, u.id, column, value)
    IN  /\ u.pc = "column"
        /\ recipients' = table
        /\ upd' = [upd EXCEPT ![c] =
                      AfterColumn([@ EXCEPT !.changed = @ \/ table # recipients],
                                  u.col + 1)]
        /\ UNCHANGED <<coreVars, sendVars, unsubscribes, budgetVars, msgVars, emails, sameRow, numUpdates>>

\* The three COUNT queries over the recipients of the email, one at a time.
update_count(c) ==
    LET u == upd[c] IN
    /\ u.pc \in {"count_sent", "count_opened", "count_replied"}
    /\ upd' = [upd EXCEPT ![c] =
          IF u.pc = "count_sent"
          THEN [@ EXCEPT !.num_sent = CountWhere(recipients, u.email_id, "is_sent"),
                         !.pc = "count_opened"]
          ELSE IF u.pc = "count_opened"
          THEN [@ EXCEPT !.num_opened = CountWhere(recipients, u.email_id, "opened"),
                         !.pc = "count_replied"]
          ELSE [@ EXCEPT !.num_replied = CountWhere(recipients, u.email_id, "replied"),
                         !.pc = "write"]]
    /\ UNCHANGED <<coreVars, sendVars, unsubscribes, budgetVars, msgVars, recipients, emails, sameRow, numUpdates>>

\* UPDATE emails SET num_sent, num_opened, num_replied WHERE id = email_id
update_write(c) ==
    LET u == upd[c]
        row == [num_sent |-> u.num_sent, num_opened |-> u.num_opened,
                num_replied |-> u.num_replied]
    IN  /\ u.pc = "write"
        /\ emails' = [emails EXCEPT ![u.email_id] = row]
        /\ upd' = [upd EXCEPT ![c].pc = "reload",
                              ![c].changed = @ \/ row # emails[u.email_id]]
        /\ UNCHANGED <<coreVars, sendVars, unsubscribes, budgetVars, msgVars, recipients, sameRow, numUpdates>>

\* The email and its recipients are loaded and returned: Ok.
update_reload(c) ==
    /\ upd[c].pc = "reload"
    /\ upd' = [upd EXCEPT ![c] = NoUpdate]
    /\ UNCHANGED <<coreVars, sendVars, unsubscribes, budgetVars, msgVars, recipients, emails, sameRow, numUpdates>>

update_recipient(c) ==
    \/ update_select(c) \/ update_column(c) \/ update_count(c)
    \/ update_write(c) \/ update_reload(c) \/ update_fail(c)

NextRepo ==
    \/ send_email_update
    \/ process_reply
    \/ \E c \in Callers : update_recipient(c)

\* The recipient and email tables under a send task and the reply monitor.
SpecRepo == Init /\ [][NextRepo]_vars

\* ------------------------------------------------- send_email, step by step
\* A value read from the tables converts a NULL fields column the same way
\* every time.
NullMaps == IF nullFields = <<>> THEN FieldMaps ELSE {nullFields[1]}

\* send_email returns.
Finish(t, result) ==
    task' = [task EXCEPT ![t].pc = "done", ![t].result = result, ![t].txn = <<>>]

\* run() spawns send_email for a bus message: NewEmail or RetryEmail.
send_email_spawn(t) ==
    /\ task[t].pc = "idle"
    /\ \/ \E request \in Requests :
            task' = [task EXCEPT ![t] =
                [NoTask EXCEPT !.pc = "create_email", !.msg = "NewEmail",
                               !.request = request, !.hub_id = MonitoredHub,
                               !.start_sent = StoredSent(sdb)]]
       \/ \E email_id \in 1..(Len(sdb) + 1), hub_id \in HubIds :
            task' = [task EXCEPT ![t] =
                [NoTask EXCEPT !.pc = "get_email", !.msg = "RetryEmail",
                               !.email_id = email_id, !.hub_id = hub_id,
                               !.start_sent = StoredSent(sdb)]]
    /\ UNCHANGED <<coreVars, msgVars, repoVars, faults, sdb, nullFields>>

\* create_email: INSERT INTO emails, inside the transaction.
create_insert_email(t) ==
    /\ task[t].pc = "create_email"
    /\ task' = [task EXCEPT ![t].pc = "create_recipient",
                            ![t].txn = <<DbNewEmail(task[t].hub_id, task[t].request)>>]
    /\ UNCHANGED <<coreVars, msgVars, repoVars, faults, sdb, nullFields>>

\* create_email: INSERT INTO email_recipients for the next recipient of the
\* request.
create_insert_recipient(t) ==
    LET row == task[t].txn[1]
        k == Len(row.recipients) + 1
    IN  /\ task[t].pc = "create_recipient"
        /\ k <= Len(task[t].request)
        /\ task' = [task EXCEPT ![t].txn =
              <<[row EXCEPT !.recipients =
                    Append(@, DbNewEmailRecipient(task[t].request[k]))]>>]
        /\ UNCHANGED <<coreVars, msgVars, repoVars, faults, sdb, nullFields>>

\* create_email: the recipients are loaded, the transaction commits and the
\* EmailWithRecipients is returned.
create_commit(t) ==
    LET row == task[t].txn[1] IN
    /\ task[t].pc = "create_recipient"
    /\ Len(row.recipients) = Len(task[t].request)
    /\ sdb' = Append(sdb, row)
    /\ \E null_map \in NullMaps :
        /\ nullFields' = <<null_map>>
        /\ task' = [task EXCEPT ![t].pc = "get_hub", ![t].txn = <<>>,
                                ![t].email_id = Len(sdb) + 1,
                                ![t].email =
                                    <<EmailWithRecipients(Len(sdb) + 1, row, null_map)>>]
    /\ UNCHANGED <<coreVars, msgVars, repoVars, faults>>

\* create_email: a statement of the transaction fails; the transaction is
\* rolled back and send_email returns the error.
create_fail(t) ==
    /\ task[t].pc \in {"create_email", "create_recipient"}
    /\ Fault
    /\ sdb' = sdb \o Rollback(task[t].txn)
    /\ Finish(t, "err")
    /\ UNCHANGED <<coreVars, msgVars, repoVars, nullFields>>

\* get_email_by_id(email_id, hub_id) for RetryEmail: the email of that hub with
\* its recipients, or Err when there is none or the query fails.
get_email_by_id(t) ==
    LET id == task[t].email_id
        found == id <= Len(sdb) /\ sdb[id].hub_id = task[t].hub_id
    IN  /\ task[t].pc = "get_email"
        /\ \/ /\ found
              /\ \E null_map \in NullMaps :
                    /\ nullFields' = <<null_map>>
                    /\ task' = [task EXCEPT ![t].pc = "get_hub",
                          ![t].email = <<EmailWithRecipients(id, sdb[id], null_map)>>]
              /\ UNCHANGED faults
           \/ /\ ~found
              /\ Finish(t, "err")
              /\ UNCHANGED <<faults, nullFields>>
           \/ /\ Fault
              /\ Finish(t, "err")
              /\ UNCHANGED nullFields
        /\ UNCHANGED <<coreVars, msgVars, repoVars, sdb>>

\* get_hub_by_id(email.hub_id): the hub, no hub (logged, Ok) or an error.
send_get_hub(t) ==
    /\ task[t].pc = "get_hub"
    /\ \/ /\ task' = [task EXCEPT ![t].pc = "loop", ![t].pos = 1]
          /\ UNCHANGED faults
       \/ /\ Finish(t, "ok")
          /\ UNCHANGED faults
       \/ /\ Fault
          /\ Finish(t, "err")
    /\ UNCHANGED <<coreVars, msgVars, repoVars, sdb, nullFields>>

\* for recipient in email.recipients: a recipient loaded as sent is skipped,
\* another is built and handed to the mailer; after the last one Ok.
for_recipient(t) ==
    LET loaded == task[t].email[1].recipients
        i == task[t].pos
    IN  /\ task[t].pc = "loop"
        /\ IF i > Len(loaded) THEN Finish(t, "ok")
           ELSE IF already_sent(loaded[i])
           THEN task' = [task EXCEPT ![t].pos = i + 1]
           ELSE task' = [task EXCEPT ![t].pc = "send",
                                     ![t].attempted = @ \cup {i}]
        /\ UNCHANGED <<coreVars, msgVars, repoVars, faults, sdb, nullFields>>

send_failure_aborts(t, i) ==
    task' = [task EXCEPT ![t].pc = "done", ![t].result = "err",
                         ![t].failed = @ \cup {i}]

send_failure_updates(t, i) ==
    task' = [task EXCEPT ![t].pc = "update", ![t].failed = @ \cup {i}]

\* mailer.send fails: logged, continue with the next recipient.
send_failure(t, i) ==
    task' = [task EXCEPT ![t].pc = "loop", ![t].pos = i + 1,
                         ![t].failed = @ \cup {i}]

\* mailer.send(&hub, message).await
mailer_send(t) ==
    LET i == task[t].pos IN
    /\ task[t].pc = "send"
    /\ \/ task' = [task EXCEPT ![t].pc = "update", ![t].sent_ok = @ \cup {i}]
       \/ send_failure(t, i)
    /\ UNCHANGED <<coreVars, msgVars, repoVars, faults, sdb, nullFields>>

\* The recipient row at (id, i) marked sent and num_sent counted again.
MarkSent(db, id, i, recount) ==
    LET rows == [db[id].recipients EXCEPT ![i].is_sent = TRUE]
        count == Cardinality({j \in 1..Len(rows) : rows[j].is_sent})
    IN [db EXCEPT ![id].recipients = rows,
                  ![id].num_sent = IF recount THEN count ELSE @]

\* repo.update_recipient(recipient.id, {is_sent: Some(true)}) after a
\* successful send: Ok, or Err before or after the UPDATE of is_sent; an Err
\* is logged and the loop goes on.
send_update_recipient(t) ==
    LET i == task[t].pos
        id == task[t].email_id
    IN  /\ task[t].pc = "update"
        /\ \/ /\ sdb' = MarkSent(sdb, id, i, TRUE)
              /\ UNCHANGED faults
           \/ /\ Fault
              /\ sdb' \in {sdb, MarkSent(sdb, id, i, FALSE)}
        /\ task' = [task EXCEPT ![t].pc = "loop", ![t].pos = i + 1,
                                ![t].updated = @ \cup {i}]
        /\ UNCHANGED <<coreVars, msgVars, repoVars, nullFields>>

send_email(t) ==
    \/ send_email_spawn(t)
    \/ create_insert_email(t) \/ create_insert_recipient(t)
    \/ create_commit(t) \/ create_fail(t)
    \/ get_email_by_id(t) \/ send_get_hub(t)
    \/ for_recipient(t) \/ mailer_send(t) \/ send_update_recipient(t)

NextSend == \E t \in Tasks : send_email(t)

\* The send worker: send_email tasks over the emails they create and retry.
SpecSend == Init /\ [][NextSend]_vars


\* ------------------------------------------- run, one supervisor per hub
SupFrame == UNCHANGED <<monitorVars, correlation, cleaning, rendering>>

SetTask(h, i, t) == supervisor' = [supervisor EXCEPT ![h].tasks[i] = t]

\* repo.get_hub_by_id(hub_id) fails or finds no row: sleep, then retry.
hub_get_hub_err(h) ==
    /\ supervisor[h].pc = "get_hub"
    /\ Fault
    /\ supervisor' = [supervisor EXCEPT ![h].pc = "sleep"]
    /\ UNCHANGED hubTable /\ SupFrame

\* repo.get_hub_by_id(hub_id) returns the row of this hub as it is now and
\* monitor_hub is spawned with it; the supervisor keeps the handle.
hub_spawn(h) ==
    /\ supervisor[h].pc = "get_hub"
    /\ Len(supervisor[h].tasks) < MaxSpawns
    /\ \E c \in BOOLEAN :
          /\ supervisor' = [supervisor EXCEPT
                 ![h].pc = "await",
                 ![h].tasks = Append(@, NewMonitor(hubTable[h], c)),
                 ![h].handle = Len(supervisor[h].tasks) + 1]
          /\ IF c THEN UNCHANGED faults ELSE Fault
    /\ UNCHANGED hubTable /\ SupFrame

hub_join_without_wait(h) ==
    /\ supervisor[h].pc = "await"
    /\ supervisor' = [supervisor EXCEPT ![h].pc = "sleep", ![h].handle = 0]
    /\ UNCHANGED <<hubTable, faults>> /\ SupFrame

\* handle.await: over once the monitor the handle stands for has ended, with
\* Ok(Err(e)) or Err(JoinError); log, then back off.
hub_join(h) ==
    /\ supervisor[h].pc = "await"
    /\ supervisor[h].tasks[supervisor[h].handle].pc = "returned"
    /\ supervisor' = [supervisor EXCEPT ![h].pc = "sleep", ![h].handle = 0]
    /\ UNCHANGED <<hubTable, faults>> /\ SupFrame

\* tokio::time::sleep is over.
hub_backoff(h) ==
    /\ supervisor[h].pc = "sleep"
    /\ supervisor' = [supervisor EXCEPT ![h].pc = "get_hub"]
    /\ UNCHANGED <<hubTable, faults>> /\ SupFrame

\* The i-th monitor task the supervisor of hub h has spawned exists.
Spawned(h, i) == i <= Len(supervisor[h].tasks)

\* The monitor is about to open its session.
Connecting(h, i) ==
    supervisor[h].tasks[i].pc = "start" /\ supervisor[h].tasks[i].configured

\* monitor_hub of a hub without IMAP settings: Err(Error::Config).
hub_monitor_config_err(h, i) ==
    /\ Spawned(h, i)
    /\ supervisor[h].tasks[i].pc = "start" /\ ~supervisor[h].tasks[i].configured
    /\ SetTask(h, i, EndedMonitor("err"))
    /\ UNCHANGED <<hubTable, faults>> /\ SupFrame

\* init_session succeeds; last_uid and persisted_uid start from the hub value.
hub_monitor_connect(h, i) ==
    /\ Spawned(h, i)
    /\ Connecting(h, i)
    /\ LET t == supervisor[h].tasks[i] IN
       SetTask(h, i, [t EXCEPT !.pc = "loop", !.last_uid = t.imap_last_uid,
                               !.persisted_uid = t.imap_last_uid])
    /\ UNCHANGED <<hubTable, faults>> /\ SupFrame

\* One iteration of a for loop over the UIDs of this hub's mailbox:
\* process_new_message(uid), last_uid = uid, persist_last_processed_uid with
\* the id of this hub.
hub_monitor_process(h, i) ==
    /\ Spawned(h, i)
    /\ supervisor[h].tasks[i].pc = "loop"
    /\ \E uid \in (supervisor[h].tasks[i].last_uid + 1)..MaxHubUid :
          LET t == supervisor[h].tasks[i]
              p == persist_last_processed_uid(t.persisted_uid, uid, TRUE) IN
          /\ SetTask(h, i, [t EXCEPT !.last_uid = uid,
                                      !.persisted_uid = p.stored_uid])
          /\ hubTable' = (IF p.called THEN update_hubs(hubTable, h, p.arg)
                                      ELSE hubTable)
    /\ UNCHANGED faults /\ SupFrame

\* An IDLE or connection error ends monitor_hub with Err.
hub_monitor_err(h, i) ==
    /\ Spawned(h, i)
    /\ Connecting(h, i) \/ supervisor[h].tasks[i].pc = "loop"
    /\ Fault
    /\ SetTask(h, i, EndedMonitor("err"))
    /\ UNCHANGED hubTable /\ SupFrame

\* The monitor task panics.
hub_monitor_panic(h, i) ==
    /\ Spawned(h, i)
    /\ Connecting(h, i) \/ supervisor[h].tasks[i].pc = "loop"
    /\ Fault
    /\ SetTask(h, i, EndedMonitor("panic"))
    /\ UNCHANGED hubTable /\ SupFrame

NextHubs ==
    \E h \in Hubs :
        \/ hub_get_hub_err(h) \/ hub_spawn(h) \/ hub_join(h) \/ hub_backoff(h)
        \/ \E i \in 1..MaxSpawns :
              \/ hub_monitor_config_err(h, i) \/ hub_monitor_connect(h, i)
              \/ hub_monitor_process(h, i)
              \/ hub_monitor_err(h, i) \/ hub_monitor_panic(h, i)

SpecHubs == Init /\ [][NextHubs]_vars

\* --------------------------------- correlation of replies with recipients
CorrelationFrame == UNCHANGED <<monitorVars, hubVars, faults, cleaning, rendering>>

\* A message arrives whose In-Reply-To header is made of the given pieces.
reply_received ==
    /\ correlation.step \in {"none", "returned"}
    /\ \E h \in Headers :
          correlation' = [NoCorrelation EXCEPT
              !.step = "received",
              !.pieces = IF h = <<>> THEN <<>> ELSE h[1],
              !.header = IF h = <<>> THEN <<>> ELSE <<Text(h[1])>>]
    /\ CorrelationFrame

\* build_message for recipient id under a domain; the reply to that message
\* carries its Message-ID as In-Reply-To.
build_message_replied ==
    /\ correlation.step \in {"none", "returned"}
    /\ \E id \in 0..I32Max, domain \in Domains :
          correlation' = [NoCorrelation EXCEPT
              !.step = "received",
              !.sent = <<[id |-> id, domain |-> domain]>>,
              !.header = <<MessageIdHeader(id, domain)>>]
    /\ CorrelationFrame

\* parse_email calls extract_recipient_id with the monitor's domain.
parse_email_recipient_id ==
    /\ correlation.step = "received"
    /\ \E domain \in Domains :
          correlation' = [correlation EXCEPT
              !.step = "extracted",
              !.domain = domain,
              !.recipient_id = extract_recipient_id(correlation.header, domain)]
    /\ CorrelationFrame

\* The header is dropped with the message.
parse_email_return ==
    /\ correlation.step = "extracted"
    /\ correlation' = [NoCorrelation EXCEPT !.step = "returned"]
    /\ CorrelationFrame

NextCorrelation ==
    \/ reply_received \/ build_message_replied
    \/ parse_email_recipient_id \/ parse_email_return

SpecCorrelation == Init /\ [][NextCorrelation]_vars

\* ------------------------------------------------------- cleaning of replies
\* find_reply hands a body to extract_reply_text.
find_reply ==
    /\ cleaning.step \in {"none", "returned"}
    /\ \E body \in Bodies :
          cleaning' = [NoCleaning EXCEPT !.step = "once", !.input = body,
                                         !.once = extract_reply_text(body)]
    /\ UNCHANGED <<monitorVars, hubVars, faults, correlation, rendering>>

\* The cleaned text is handed to extract_reply_text again.
find_reply_again ==
    /\ cleaning.step = "once"
    /\ cleaning' = [cleaning EXCEPT !.step = "twice",
                                    !.twice = extract_reply_text(cleaning.once)]
    /\ UNCHANGED <<monitorVars, hubVars, faults, correlation, rendering>>

\* The texts are dropped with the message.
find_reply_return ==
    /\ cleaning.step = "twice"
    /\ cleaning' = [NoCleaning EXCEPT !.step = "returned"]
    /\ UNCHANGED <<monitorVars, hubVars, faults, correlation, rendering>>

NextCleaning == find_reply \/ find_reply_again \/ find_reply_return

SpecCleaning == Init /\ [][NextCleaning]_vars

\* ------------------------------------------------------ rendering of a body
\* build_message for one recipient of an email under a hub.
build_message_body ==
    /\ rendering.step \in {"none", "returned"}
    /\ \E message \in PieceSeqs(MessagePieces),
          tpl \in {<<>>} \cup {<<t>> : t \in PieceSeqs(HubTemplatePieces)},
          fields \in RecipientFields :
          rendering' =
              [step |-> "built", message |-> message, email_template |-> tpl,
               fields |-> fields,
               body |-> build_message(
                            IF tpl = <<>> THEN <<>> ELSE <<Text(tpl[1])>>,
                            Text(message), RecipientName, UnsubscribeUrl,
                            fields)]
    /\ UNCHANGED <<monitorVars, hubVars, faults, correlation, cleaning>>

\* The message has been handed to the mailer.
build_message_return ==
    /\ rendering.step = "built"
    /\ rendering' = [NoRendering EXCEPT !.step = "returned"]
    /\ UNCHANGED <<monitorVars, hubVars, faults, correlation, cleaning>>

NextRendering == build_message_body \/ build_message_return

SpecRendering == Init /\ [][NextRendering]_vars

\* ------------------------------------------------------------------ claims
\* The monitor is between taking a UID and the return of process_new_message.
InProcess == IF monPc = "publish" THEN {cur} ELSE {}

\* The UIDs of the current batch for which process_new_message has returned.
Returned == Range(batchAll) \ (Range(batch) \cup InProcess)

\* How many UIDs of the current batch have been through persist.
Persisted ==
    Len(batchAll) - Len(batch) - (IF monPc \in {"publish", "persist"} THEN 1 ELSE 0)

Ascending(s) == \A i, j \in 1..Len(s) : i < j => s[i] < s[j]

\* C1: within one run of monitor_hub the UIDs handed to process_new_message
\* are strictly ascending: each UID taken is above the UID taken before it
\* (cur = 0: nothing taken yet in this run).
C1_StrictlyAscendingRun ==
    [][(monPc = "for" /\ monPc' \in {"publish", "persist"} /\ cur # 0)
          => cur' > cur]_vars

\* C2: hubs.imap_last_uid never decreases; set_imap_last_uid is called only
\* with a value above the value last stored; a monitor that starts takes its
\* last_uid and persisted_uid from the stored value.
C2_WatermarkMonotonic ==
    [][/\ stored' >= stored
       /\ (monPc = "persist" /\ Len(setCalls') > Len(setCalls))
             => setCalls'[Len(setCalls')] > stored
       /\ (monPc = "start" /\ monPc' = "initial_search")
             => (persisted_uid' = stored' /\ last_uid' = stored')]_vars

\* C2 witness: after a restart, a UID below the stored watermark went through
\* persist and the watermark stayed.
C2_Witness ==
    /\ monPc = "for" /\ cur # 0 /\ cur < stored
    /\ cur < hub.imap_last_uid /\ faults > 0

\* C3: set_imap_last_uid is called for a UID only after process_new_message
\* for that UID has returned (repository write and bus publish done).
C3_PersistAfterProcess ==
    \A i \in 1..Len(setCalls) : setCalls[i] \in Returned

\* C3 witness: the watermark was written for a UID whose repository write and
\* bus publish had been carried out.
C3_Witness ==
    /\ setCalls # <<>> /\ setCalls[Len(setCalls)] = cur
    /\ curRepo = "ok" /\ curPub = "sent"
    /\ stored = cur

\* C4: for a batch whose UIDs are all above the stored watermark and within
\* the signed range, set_imap_last_uid has been called exactly once for each
\* UID that went through the loop body, in ascending order, before the next
\* UID is taken; after a successful write the stored watermark is that UID.
C4_PersistPerUid ==
    batchFresh =>
        /\ setCalls = SubSeq(batchAll, 1, Persisted)
        /\ Ascending(setCalls)
        /\ (setCalls # <<>> /\ lastWrite = "ok")
              => stored = setCalls[Len(setCalls)]

\* C4 witness: a batch of two or more UIDs was persisted UID by UID, and the
\* loop is about to take the last UID of the batch.
C4_Witness ==
    /\ batchFresh /\ Len(batchAll) >= 3
    /\ monPc = "for" /\ Len(batch) = 1
    /\ Len(setCalls) = 2 /\ stored = setCalls[2]

\* C5: no search hands the UID equal to the last_uid it searched from to
\* process_new_message.
C5_CutoffExcluded ==
    monPc \in {"publish", "persist"} => cur # searchFrom

\* C6: a monitor started with stored watermark w never processes a UID <= w,
\* and its last_uid never drops below w.
C6_NothingAtOrBelowStart ==
    /\ monPc \in {"publish", "persist"} => cur > hub.imap_last_uid
    /\ monPc \in {"initial_search", "for", "publish", "persist", "idle_init",
                  "idle_wait", "idle_done", "search"}
          => last_uid >= hub.imap_last_uid

\* C7: after a restart at most one UID whose side effects had completed in an
\* earlier run is processed again.
C7_AtMostOneReprocessed ==
    Cardinality(runDone \cap doneBefore) <= 1

\* C8: the stored watermark is not advanced to a UID whose repository write
\* (update_recipient or unsubscribe_recipient) failed.
C8_WatermarkOnlyCommitted ==
    ~(/\ curRepo = "fail"
      /\ setCalls # <<>> /\ setCalls[Len(setCalls)] = cur
      /\ lastWrite = "ok" /\ stored >= cur)

\* C9: when set_imap_last_uid fails the run is aborted: monitor_hub has
\* returned to the supervisor.
C9_WriteErrorAborts ==
    lastWrite = "err" => monPc = "returned"

\* C10: when a UID SEARCH fails the run is aborted: monitor_hub has returned
\* to the supervisor.
C10_SearchErrorAborts ==
    lastSearch = "err" => monPc = "returned"

\* An IDLE wait that ended with an I/O error of kind TimedOut.
TimedOutWait == [op |-> "wait", kind |-> "TimedOut"]

\* C11: a wait that ends with TimedOut does not end the monitor: it goes on
\* to idle.done(), the search, the for loop and a fresh idle.init(); after any
\* other error of idle.init(), the wait or idle.done() monitor_hub has
\* returned Err to the supervisor.
C11_TimedOutBenign ==
    [][/\ (monPc = "idle_wait" /\ monPc' # monPc /\ idleErr' = TimedOutWait)
             => (monPc' = "idle_done" /\ monResult' = monResult)
       /\ (monPc = "idle_done" /\ monPc' \notin {monPc, "returned"})
             => monPc' = "search"
       /\ (monPc = "search" /\ monPc' \notin {monPc, "returned"})
             => monPc' \in {"for", "idle_init"}
       /\ (monPc = "for" /\ batch = <<>> /\ monPc' \notin {monPc, "returned"})
             => monPc' = "idle_init"
       /\ (monPc = "idle_init" /\ monPc' \notin {monPc, "returned"})
             => monPc' = "idle_wait"
       /\ (idleErr'.op # "none" /\ idleErr' # TimedOutWait)
             => (monPc' = "returned" /\ monResult' = "err")]_vars

\* C11 witness: after a wait that timed out, the monitor has been through
\* idle.done() and the search and is waiting in a fresh IDLE.
C11_Witness ==
    /\ monPc = "idle_wait" /\ idleErr = TimedOutWait
    /\ monResult = "none"

C13_SignedRange ==
    [][(monPc = "persist" /\ monPc' = "for") =>
          /\ last_uid' = cur
          /\ cur > I32Max
                => /\ setCalls' = setCalls /\ stored' = stored
                   /\ persisted_uid' = persisted_uid
          /\ (cur <= I32Max /\ cur > stored)
                => /\ setCalls' = Append(setCalls, cur)
                   /\ faults' = faults
                         => (stored' = cur /\ persisted_uid' = cur)]_vars

\* C13 witness: a message with a UID above the signed range was processed and
\* published, last_uid is that UID, and the stored watermark stays at the
\* last UID within the range.
C13_Witness ==
    /\ monPc = "for" /\ cur > I32Max /\ last_uid = cur
    /\ curMsg = "parsed" /\ curPub = "sent"
    /\ stored = I32Max /\ persisted_uid = I32Max /\ setCalls = <<I32Max>>

\* The subject equals "unsubscribe" case-insensitively and a sender is present.
IsUnsubscribe(p) ==
    /\ p.subject # <<>> /\ to_ascii_lowercase(p.subject[1]) = "unsubscribe"
    /\ p.sender_email # <<>>

\* The subject equals "Undelivered Mail Returned to Sender" case-insensitively.
IsUndelivered(p) ==
    /\ p.subject # <<>>
    /\ to_ascii_lowercase(p.subject[1]) = "undelivered mail returned to sender"

\* The repository calls and bus messages of the unsubscribe path for email.
UnsubscribePath(p, email) ==
    /\ Len(calls) = 1
    /\ calls[1].op = "unsubscribe_recipient"
    /\ calls[1].email = email
    /\ calls[1].hub_id = MonitoredHub
    /\ calls[1].reason = p.subject
    /\ Len(bus) = 1
    /\ bus[1].message = ZMQUnsubscribeMessage(MonitoredHub, email, p.subject)

UpdateCalls == {i \in 1..Len(calls) : calls[i].op = "update_recipient"}

\* The recipient lookup was made and returned a row.
RowFound ==
    \E i \in 1..Len(calls) :
        calls[i].op = "get_email_recipient_by_id" /\ calls[i].result = "some"

\* C14: for a message whose subject is "unsubscribe" in any case and whose
\* sender is present, process_new_message makes exactly one repository call,
\* unsubscribe_recipient(sender, hub_id, subject), hands exactly one message
\* to the bus, ZMQUnsubscribeMessage{hub_id, sender, subject}, and returns:
\* no recipient lookup, no update_recipient, no ZMQReplyMessage.
C14_UnsubscribePath ==
    (msgPc = "done" /\ IsUnsubscribe(curParsed))
        => UnsubscribePath(curParsed, curParsed.sender_email[1])

\* C14 witness: an "UnSubscribe" message whose In-Reply-To names a recipient
\* of the hub was handled, the unsubscribe stored and published.
C14_Witness ==
    /\ msgPc = "done" /\ IsUnsubscribe(curParsed)
    /\ curParsed.subject = <<"UnSubscribe">>
    /\ curParsed.recipient_id = <<1>>
    /\ Len(calls) = 1 /\ calls[1].result = TRUE
    /\ Len(bus) = 1 /\ bus[1].result = TRUE

\* C15: an undelivered-mail message with a bounce recipient takes the
\* unsubscribe path with the bounced address and the subject as reason; one
\* without a bounce recipient (and that is no unsubscribe message) makes no
\* unsubscribe call and is classified as a reply: its recipient is looked up
\* when the In-Reply-To gave a valid id.
C15_BouncePath ==
    (msgPc = "done" /\ IsUndelivered(curParsed)) =>
        IF curParsed.bounce_recipient # <<>>
        THEN UnsubscribePath(curParsed, curParsed.bounce_recipient[1])
        ELSE /\ \A i \in 1..Len(calls) : calls[i].op # "unsubscribe_recipient"
             /\ \A i \in 1..Len(bus) :
                   bus[i].message.type # "ZMQUnsubscribeMessage"
             /\ (curParsed.recipient_id # <<>> /\ curParsed.recipient_id[1] >= 1)
                   => /\ calls # <<>>
                      /\ calls[1].op = "get_email_recipient_by_id"
                      /\ calls[1].id = curParsed.recipient_id[1]

\* C15 witness: a bounce with both a sender and a bounce recipient was
\* handled, and the unsubscribe went out for the bounced address.
C15_Witness ==
    /\ msgPc = "done" /\ IsUndelivered(curParsed)
    /\ curParsed.sender_email # <<>> /\ curParsed.bounce_recipient # <<>>
    /\ curParsed.recipient_id = <<1>>
    /\ Len(bus) = 1 /\ bus[1].result = TRUE
    /\ bus[1].message.email = BouncedAddress

C17_ReplyOnlyForRecipient ==
    \A i \in 1..Len(bus) :
        (bus[i].message.type = "ZMQReplyMessage" /\ bus[i].result) => RowFound

\* C18: in every state of the recipient table, between the statements of
\* update_recipient calls and under every interleaving of the send task and
\* the reply monitor, a recipient with replied has is_sent and opened.
C18_RepliedImpliesSentOpened ==
    \A r \in RecipientIds :
        recipients[r].replied => (recipients[r].is_sent /\ recipients[r].opened)

\* C18 witness: the reply monitor is inside update_recipient, between the
\* UPDATE of replied and the UPDATE of reply, with replied written on its
\* row, while the send task is between the statements of its own call.
C18_Witness ==
    /\ upd["monitor_hub"].pc = "column"
    /\ UpdateOrder[upd["monitor_hub"].col] = "reply"
    /\ recipients[upd["monitor_hub"].id].replied
    /\ upd["send_email"].pc \notin {"idle", "select"}

\* C19: when no update_recipient call is in progress, the counters of each
\* email equal the numbers of its recipients with is_sent, opened and
\* replied (here for the claim's own case: no statement has failed, and the
\* calls that overlapped were for different recipients).
C19_CountersMatch ==
    (faults = 0 /\ ~sameRow /\ \A c \in Callers : upd[c].pc = "idle") =>
        \A e \in EmailIds :
            /\ emails[e].num_sent = CountWhere(recipients, e, "is_sent")
            /\ emails[e].num_opened = CountWhere(recipients, e, "opened")
            /\ emails[e].num_replied = CountWhere(recipients, e, "replied")

\* C20: an update_recipient call that returned Err has changed neither the
\* recipient row nor the counters of the email.
C20_FailedCallChangesNothing ==
    \A c \in Callers : upd[c].result = "err" => ~upd[c].changed

\* The columns of email_recipients that update_recipient can write.
Columns == {"is_sent", "opened", "replied", "reply"}

\* C21: a statement of update_recipient changes a column of a recipient row
\* only for the recipient the call addresses and only when the updates give
\* that column as Some; it changes the counters of an email only for the
\* parent email of that recipient.
C21_OnlyProvidedFields ==
    [][LET rows ==
               \A r \in RecipientIds : \A col \in Columns :
                   recipients'[r][col] # recipients[r][col] =>
                       \E c \in Callers :
                           /\ upd[c].pc = "column" /\ upd'[c] # upd[c]
                           /\ upd[c].id = r
                           /\ upd[c].updates[col] # <<>>
           counters ==
               \A e \in EmailIds :
                   emails'[e] # emails[e] =>
                       \E c \in Callers :
                           /\ upd[c].pc = "write" /\ upd'[c] # upd[c]
                           /\ EmailOf(upd[c].id) = e
       IN rows /\ counters]_vars

\* C21 witness: the send task's call, with only is_sent given, has run its
\* UPDATE on a row that holds opened, replied and a reply text.
C21_Witness ==
    /\ upd["send_email"].pc = "count_sent"
    /\ upd["send_email"].updates = send_email_updates
    /\ recipients[upd["send_email"].id].opened
    /\ recipients[upd["send_email"].id].replied
    /\ recipients[upd["send_email"].id].reply = <<"Thanks!">>

\* The pcs of a task inside create_email.
InCreate == {"create_email", "create_recipient"}

\* C22: create_email is all-or-nothing.  When it returns Ok the tables hold
\* one more email with exactly one recipient row per recipient of the
\* request, in order, each with is_sent, opened and replied false, and the
\* returned value lists exactly these recipients; when it returns Err, and
\* while its transaction is open, the tables are as they were.
C22_CreateAllOrNothing ==
    [][\A t \in Tasks :
        (task[t].pc \in InCreate /\ task'[t] # task[t]) =>
            IF task'[t].pc = "get_hub"
            THEN LET id == Len(sdb) + 1
                     request == task[t].request
                 IN /\ Len(sdb') = id
                    /\ \A e \in 1..Len(sdb) : sdb'[e] = sdb[e]
                    /\ Len(sdb'[id].recipients) = Len(request)
                    /\ \A i \in 1..Len(request) :
                         /\ sdb'[id].recipients[i].address = request[i].address
                         /\ ~sdb'[id].recipients[i].is_sent
                         /\ ~sdb'[id].recipients[i].opened
                         /\ ~sdb'[id].recipients[i].replied
                    /\ task'[t].email[1].id = id
                    /\ Len(task'[t].email[1].recipients) = Len(request)
                    /\ \A i \in 1..Len(request) :
                         /\ task'[t].email[1].recipients[i].pos = i
                         /\ task'[t].email[1].recipients[i].address = request[i].address
                         /\ ~task'[t].email[1].recipients[i].is_sent
            ELSE sdb' = sdb]_vars

\* C22 witness: one create_email has failed and left nothing, another has
\* returned an email with MaxRcpts recipients, the only email in the tables.
C22_Witness ==
    \E t, u \in Tasks :
        /\ task[t].msg = "NewEmail" /\ task[t].pc = "done"
        /\ task[t].result = "err" /\ task[t].email = <<>>
        /\ Len(task[t].request) >= 1
        /\ task[u].msg = "NewEmail" /\ task[u].pc = "get_hub"
        /\ Len(task[u].email[1].recipients) = MaxRcpts
        /\ Len(sdb) = 1

\* C23: the recipients create_email returns, and those get_email_by_id
\* returns later, carry the fields map the request gave for them.
C23_FieldsKept ==
    \A t \in Tasks :
        task[t].email # <<>> =>
            LET email == task[t].email[1] IN
            \A i \in 1..Len(email.recipients) :
                email.recipients[i].fields = sdb[email.id].request[i].fields

\* The recipients of task t's email that were loaded with is_sent = false.
LoadedUnsent(t) ==
    {i \in 1..Len(task[t].email[1].recipients) :
        ~task[t].email[1].recipients[i].is_sent}

\* C27: send_email calls update_recipient for a recipient exactly after the
\* mailer reported success for it in this run; a failed send changes no row
\* and is followed by no update, and a row's is_sent becomes true only in the
\* update that follows a successful send to that recipient.
C27_SentOnlyOnSuccess ==
    [][/\ \A t \in Tasks :
            /\ task'[t].updated \subseteq task'[t].sent_ok
            /\ task'[t].failed \cap task'[t].updated = {}
            /\ (task'[t].sent_ok \ task'[t].updated) \subseteq
                  (IF task'[t].pc = "update" THEN {task'[t].pos} ELSE {})
            /\ (task[t].pc = "send" /\ task'[t] # task[t]) => sdb' = sdb
       /\ \A pair \in StoredSent(sdb') \ StoredSent(sdb) :
            \E t \in Tasks :
                /\ task[t].pc = "update" /\ task'[t] # task[t]
                /\ task[t].email_id = pair[1] /\ task[t].pos = pair[2]
                /\ pair[2] \in task[t].sent_ok]_vars

\* C27 witness: a run has ended after one failed and one successful send; the
\* row of the first is stored unsent, that of the second sent.
C27_Witness ==
    \E t \in Tasks :
        /\ task[t].pc = "done"
        /\ task[t].failed # {} /\ task[t].updated # {}
        /\ \A i \in task[t].failed :
              ~sdb[task[t].email_id].recipients[i].is_sent
        /\ \A i \in task[t].updated :
              sdb[task[t].email_id].recipients[i].is_sent

\* C28: a send_email run that has reached its loop ends with Ok, whatever
\* sends failed, and has then handed every recipient loaded as unsent to the
\* mailer.
C28_BatchContinues ==
    \A t \in Tasks :
        (task[t].pc = "done" /\ task[t].pos >= 1) =>
            /\ task[t].result = "ok"
            /\ LoadedUnsent(t) \subseteq task[t].attempted

\* C28 witness: every send of a run with MaxRcpts recipients failed, and the
\* run returned Ok.
C28_Witness ==
    \E t \in Tasks :
        /\ task[t].pc = "done" /\ task[t].result = "ok"
        /\ task[t].failed = 1..MaxRcpts

\* C29: what a run hands to the mailer are the recipients it loaded with
\* is_sent = false, each once it reaches it, and never a recipient whose
\* is_sent = true was stored when the run started.
C29_OnlyUnsentHanded ==
    \A t \in Tasks :
        task[t].email # <<>> =>
            /\ task[t].attempted =
                  {i \in LoadedUnsent(t) :
                      \/ i < task[t].pos
                      \/ i = task[t].pos /\ task[t].pc \in {"send", "update"}}
            /\ \A i \in task[t].attempted :
                  <<task[t].email_id, i>> \notin task[t].start_sent

\* C29 witness: a RetryEmail run has ended; it loaded one recipient as sent
\* and skipped it, and handed another to the mailer.
C29_Witness ==
    \E t \in Tasks :
        /\ task[t].msg = "RetryEmail" /\ task[t].pc = "done"
        /\ task[t].pos >= 1
        /\ <<task[t].email_id, 1>> \in task[t].start_sent
        /\ task[t].attempted = {2}

\* C24: no step of process_new_message in the monitored hub changes a
\* recipient of an email of another hub or that email's counters, and every
\* row get_email_recipient_by_id(id, hub) returned belongs to an email of hub.
C24_HubScoped ==
    [][LET rows ==
               \A r \in RecipientIds :
                   recipients'[r] # recipients[r] =>
                       HubOfEmail(EmailOf(r)) = MonitoredHub
           counters ==
               \A e \in EmailIds :
                   emails'[e] # emails[e] => HubOfEmail(e) = MonitoredHub
           lookups ==
               \A i \in 1..Len(calls') :
                   (calls'[i].op = "get_email_recipient_by_id"
                        /\ calls'[i].result = "some") =>
                       HubOfEmail(EmailOf(calls'[i].id)) = calls'[i].hub_id
       IN rows /\ counters /\ lookups]_vars

\* C24 witness: a reply naming the recipient of the other hub's email has been
\* handled after a reply that marked a recipient of this hub; the lookup gave
\* no row and the other hub's row and counters are untouched.
C24_Witness ==
    /\ msgPc = "done"
    /\ curParsed.recipient_id = <<NumRecipients>>
    /\ EmailOf(NumRecipients) = OtherHub
    /\ \E i \in 1..Len(calls) :
          /\ calls[i].op = "get_email_recipient_by_id"
          /\ calls[i].id = NumRecipients /\ calls[i].result = "none"
    /\ \E r \in RecipientIds : recipients[r].replied
    /\ ~recipients[NumRecipients].replied
    /\ emails[OtherHub].num_replied = 0

\* The update_recipient calls in a sequence of repository calls.
UpdatesIn(log) == {i \in 1..Len(log) : log[i].op = "update_recipient"}

\* C25: when a reply whose first processing ended with update_recipient
\* returning Ok is processed again, with the same update, the recipient rows
\* and the counters of the emails stay as the first processing left them.
C25_ReprocessIdempotent ==
    [][(/\ msgPc = "classify" /\ msgPc' # "classify" /\ redo
        /\ \E i \in UpdatesIn(prevCalls) :
              /\ prevCalls[i].result
              /\ \A j \in UpdatesIn(calls') :
                    /\ calls'[j].id = prevCalls[i].id
                    /\ calls'[j].updates = prevCalls[i].updates)
       => (recipients' = recipients /\ emails' = emails)]_vars

\* C25 witness: a reply with text has been processed twice, update_recipient
\* returned Ok both times, and the row holds the flags and the text.
C25_Witness ==
    /\ msgPc = "done" /\ redo
    /\ \E i \in UpdatesIn(prevCalls), j \in UpdatesIn(calls) :
          /\ prevCalls[i].result /\ calls[j].result
          /\ calls[j].updates.reply = <<"Thanks!">>
          /\ calls[j].updates = prevCalls[i].updates
          /\ recipients[calls[j].id].replied
          /\ recipients[calls[j].id].reply = <<"Thanks!">>
          /\ emails[EmailOf(calls[j].id)].num_replied = 1

\* The unsubscribes table has a row for (email, hub_id).
Unsubscribed(table, email, hub_id) ==
    \E i \in 1..Len(table) : table[i].email = email /\ table[i].hub_id = hub_id

\* C26: the unsubscribes table never holds two rows with the same email and
\* hub_id, and an unsubscribe_recipient call for a pair already in the table
\* leaves the table as it is.
C26_UnsubscribeUnique ==
    [][/\ \A i, j \in 1..Len(unsubscribes') :
            (unsubscribes'[i].email = unsubscribes'[j].email
                /\ unsubscribes'[i].hub_id = unsubscribes'[j].hub_id) => i = j
       /\ \A k \in 1..Len(calls') :
            (/\ msgPc = "classify"
             /\ calls'[k].op = "unsubscribe_recipient"
             /\ Unsubscribed(unsubscribes, calls'[k].email, calls'[k].hub_id))
            => unsubscribes' = unsubscribes]_vars

\* C26 witness: an unsubscribe request has been processed twice, both calls
\* returned Ok, for an address an earlier message with another spelling of
\* the subject had unsubscribed; the table holds the one row of that message.
C26_Witness ==
    /\ msgPc \in {"publish", "done"} /\ redo
    /\ Len(prevCalls) = 1 /\ prevCalls[1].op = "unsubscribe_recipient"
    /\ prevCalls[1].result
    /\ Len(calls) = 1 /\ calls[1].op = "unsubscribe_recipient"
    /\ calls[1].result
    /\ Len(unsubscribes) = 1
    /\ unsubscribes[1].email = calls[1].email
    /\ unsubscribes[1].reason # calls[1].reason

\* C30: whenever monitor_hub has returned an error or panicked, the
\* supervisor comes to its backoff sleep, and from a backoff sleep it comes to
\* start a monitor with the hub as get_hub_by_id reads it then, its
\* imap_last_uid being the stored one; failed and empty reads of the hub in
\* between lead back to the sleep and the read is tried again.
C30_Respawn ==
    /\ (monPc = "returned" /\ monResult \in {"err", "panic"})
          ~> (supPc = "sleep" /\ monPc = "none")
    /\ (supPc = "sleep")
          ~> (supPc = "await" /\ monPc = "start" /\ hub.imap_last_uid = stored)

\* C30 witness: a monitor has been started with a watermark an earlier
\* monitor of the hub had stored, after failures.
C30_Witness ==
    /\ supPc = "await" /\ monPc = "start"
    /\ stored > 0 /\ hub.imap_last_uid = stored
    /\ faults > 0

\* C31: a monitor started for a hub that lacks IMAP settings does nothing but
\* return: while it exists it is at its start or has returned Err, with no
\* session opened, no search made, no watermark written and nothing handed
\* to the repository or the bus; it does return, and the supervisor then
\* starts a monitor again with the hub row as read at that time.
UnconfiguredRun == monPc # "none" /\ ~hub.configured

C31_ConfigErrorFirst ==
    /\ [](UnconfiguredRun =>
             /\ monPc \in {"start", "returned"}
             /\ monPc = "returned" => monResult = "err"
             /\ lastSearch = "none" /\ batchAll = <<>>
             /\ setCalls = <<>> /\ lastWrite = "none"
             /\ cur = 0 /\ curMsg = "none"
             /\ curRepo = "none" /\ curPub = "none")
    /\ [][UnconfiguredRun => stored' = stored]_vars
    /\ (UnconfiguredRun /\ monPc = "start")
          ~> (UnconfiguredRun /\ monPc = "returned" /\ monResult = "err")
    /\ (UnconfiguredRun /\ monPc = "returned")
          ~> (supPc = "await" /\ monPc = "start" /\ hub.imap_last_uid = stored)

\* C31 witness: the monitor of a hub without IMAP settings has returned its
\* configuration error and the supervisor has yet to take it.
C31_Witness ==
    /\ supPc = "await" /\ UnconfiguredRun
    /\ monPc = "returned" /\ monResult = "err"

\* C32: every step of a hub's supervisor or of one of its monitors (a
\* configuration error, a failure, a panic, a join, a backoff, a respawn, a
\* processed UID) leaves the supervisor, the monitors and the imap_last_uid
\* of every other hub as they were, and what a hub's tasks can do next never
\* depends on another hub: a sleeping supervisor can wake, a started monitor
\* can check its settings and connect, a monitor with UIDs left can process
\* one, and a supervisor whose monitor has ended can take its result.
HubOf(h) == <<supervisor[h], hubTable[h]>>

C32_HubsIsolated ==
    [][LET Unblocked(h) ==
               /\ supervisor[h].pc = "sleep" => ENABLED hub_backoff(h)
               /\ (supervisor[h].pc = "await"
                     /\ supervisor[h].tasks[supervisor[h].handle].pc = "returned")
                     => ENABLED hub_join(h)
               /\ \A i \in 1..Len(supervisor[h].tasks) :
                     LET t == supervisor[h].tasks[i] IN
                     /\ (t.pc = "start" /\ ~t.configured)
                           => ENABLED hub_monitor_config_err(h, i)
                     /\ (t.pc = "start" /\ t.configured)
                           => ENABLED hub_monitor_connect(h, i)
                     /\ (t.pc = "loop" /\ t.last_uid < MaxHubUid)
                           => ENABLED hub_monitor_process(h, i)
           OneHub ==
               \A h \in Hubs :
                   HubOf(h)' # HubOf(h) =>
                       \A g \in Hubs \ {h} : HubOf(g)' = HubOf(g)
       IN  OneHub /\ \A h \in Hubs : Unblocked(h)]_vars

\* C32 witness: the first monitor of one hub has failed or panicked and a
\* second one has been spawned, while the first monitor of another hub is in
\* its loop with a UID processed and stored for that hub only.
C32_Witness ==
    \E h \in Hubs : \E g \in Hubs \ {h} :
        /\ Len(supervisor[h].tasks) = 2
        /\ supervisor[h].tasks[1].result \in {"err", "panic"}
        /\ supervisor[h].tasks[2].pc = "start"
        /\ Len(supervisor[g].tasks) = 1
        /\ supervisor[g].tasks[1].pc = "loop"
        /\ supervisor[g].tasks[1].last_uid > 0
        /\ hubTable[g] = supervisor[g].tasks[1].last_uid
        /\ hubTable[h] # hubTable[g]

\* C38: the monitor tasks a supervisor has spawned for its hub are never two
\* alive at a time: a monitor is spawned only after the one before it has
\* ended, so two monitors of a hub never process UIDs or write its watermark
\* at the same time.
C38_OneMonitorPerHub ==
    /\ [](\A h \in Hubs : Cardinality(Live(h)) <= 1)
    /\ [][\A h \in Hubs :
             Len(supervisor[h].tasks)' > Len(supervisor[h].tasks) =>
                 Live(h) = {}]_vars

\* C38 witness: a hub's second monitor is processing UIDs after its first one
\* has ended.
C38_Witness ==
    \E h \in Hubs :
        /\ Len(supervisor[h].tasks) = 2
        /\ supervisor[h].tasks[1].pc = "returned"
        /\ supervisor[h].tasks[2].pc = "loop"
        /\ supervisor[h].tasks[2].last_uid > 0

\* C33: a monitor waiting in IDLE comes to end the wait, then to end IDLE,
\* then to search, then (having processed what the search returned) to issue
\* IDLE and to wait again, unless monitor_hub has ended meanwhile.
MonitorEnded == monPc = "returned"

C33_IdleEnds ==
    /\ (monPc = "idle_wait") ~> (monPc = "idle_done" \/ MonitorEnded)
    /\ (monPc = "idle_done") ~> (monPc = "search" \/ MonitorEnded)
    /\ (monPc = "search") ~> (monPc = "idle_init" \/ MonitorEnded)
    /\ (monPc = "idle_init") ~> (monPc = "idle_wait" \/ MonitorEnded)

\* C33 witness: a monitor that has processed messages in this run waits in
\* IDLE with no message left that the server could announce.
C33_Witness ==
    /\ monPc = "idle_wait"
    /\ last_uid > hub.imap_last_uid
    /\ uidNext > MaxUid /\ \A u \in mailbox : u <= last_uid

\* C34: extract_recipient_id gives Some(k) for the first angle-bracket token
\* of the In-Reply-To header whose domain is the configured one and whose id
\* is a non-negative integer k, and None when the header has no such token.
\* The id as a non-negative integer that fits a recipient id (<<>>: it is none).
parse_unsigned(str) ==
    IF str = <<>> \/ \E i \in 1..Len(str) : ~IsDigit(str[i])
    THEN <<>>
    ELSE IF DecimalValue(str) > I32Max THEN <<>> ELSE <<DecimalValue(str)>>

NonNegative(id) == parse_unsigned(id) # <<>>

C34_ExtractRecipientId ==
    correlation.step = "extracted" /\ correlation.sent = <<>> =>
        LET ps == correlation.pieces
            Matching == {i \in 1..Len(ps) :
                            /\ ps[i].token
                            /\ ps[i].domain = correlation.domain
                            /\ NonNegative(ps[i].id)}
        IN  IF Matching = {}
            THEN correlation.recipient_id = <<>>
            ELSE LET first == CHOOSE i \in Matching : \A j \in Matching : i <= j
                 IN  correlation.recipient_id = parse_unsigned(ps[first].id)

\* C37: the Message-ID build_message writes for recipient k under domain d,
\* coming back as In-Reply-To, is mapped to k by extract_recipient_id with
\* domain d and to None with another domain.
C37_MessageIdRoundTrip ==
    correlation.step = "extracted" /\ correlation.sent # <<>> =>
        IF correlation.domain = correlation.sent[1].domain
        THEN correlation.recipient_id = <<correlation.sent[1].id>>
        ELSE correlation.recipient_id = <<>>

\* C37 witness: the Message-ID of a recipient with a nonzero id was handed
\* back and mapped to the id.
C37_Witness ==
    /\ correlation.step = "extracted" /\ correlation.sent # <<>>
    /\ correlation.sent[1].id > 0
    /\ correlation.recipient_id = <<correlation.sent[1].id>>

RECURSIVE Rendered(_, _)
Rendered(pieces, values) ==
    IF pieces = <<>> THEN <<>>
    ELSE LET piece == Head(pieces) IN
         (IF piece.token /\ piece.key \in DOMAIN values
          THEN values[piece.key] ELSE piece.text)
            \o Rendered(Tail(pieces), values)

HasMessageToken(pieces) ==
    \E i \in 1..Len(pieces) : pieces[i] = TemplateToken(<<"message">>)

C36_TemplateRendering ==
    rendering.step = "built" =>
        LET message == Rendered(rendering.message, rendering.fields)
            template ==
                IF rendering.email_template = <<>>
                THEN <<TemplateToken(<<"message">>)>>
                ELSE IF HasMessageToken(rendering.email_template[1])
                THEN rendering.email_template[1]
                ELSE rendering.email_template[1]
                         \o <<TemplateText(<<"\n", "\n">>),
                              TemplateToken(<<"message">>)>>
            outer == (<<"name">> :> RecipientName)
                         @@ (<<"unsubscribe_url">> :> UnsubscribeUrl)
                         @@ (<<"message">> :> message)
        IN  /\ rendering.body = Rendered(template, outer) \o TrackingPixel
            /\ contains(rendering.body, message)

\* C36 witness: a message with a known and an unknown token was rendered
\* into a hub template that has a {name} token and no {message} token.
C36_Witness ==
    /\ rendering.step = "built"
    /\ rendering.fields = (<<"favorite_color">> :> <<"blue">>)
    /\ rendering.message = <<TemplateToken(<<"favorite_color">>),
                             TemplateToken(<<"unknown">>)>>
    /\ rendering.email_template = <<<<TemplateText(<<"Hi">>),
                                      TemplateToken(<<"name">>)>>>>
    /\ rendering.body = <<"Hi", "Alice", "\n", "\n", "blue",
                          "{", "unknown", "}", "<img>">>

\* C39: of the send_email tasks that work on the same email, no two have
\* had the mailer deliver to the same recipient.
C39_DeliveredOnce ==
    \A t \in Tasks : \A u \in Tasks \ {t} :
        (task[t].email_id # 0 /\ task[t].email_id = task[u].email_id) =>
            task[t].sent_ok \cap task[u].sent_ok = {}

\* C40: no statement of an update_recipient call, made by send_email or by
\* the reply monitor in any interleaving, takes is_sent, opened or replied
\* of a recipient from true to false.
C40_FlagsMonotonic ==
    [][\A r \in RecipientIds :
          /\ recipients[r].is_sent => recipients'[r].is_sent
          /\ recipients[r].opened => recipients'[r].opened
          /\ recipients[r].replied => recipients'[r].replied]_vars

\* C40 witness: send_email's call has written its row while a call of the
\* reply monitor for the same recipient ran and ended; the recipient is
\* sent, opened and replied.
C40_Witness ==
    \E r \in RecipientIds :
        /\ upd["send_email"].id = r /\ upd["send_email"].pc = "reload"
        /\ sameRow /\ upd["monitor_hub"].pc = "idle"
        /\ recipients[r].is_sent /\ recipients[r].opened /\ recipients[r].replied

====
